---- MODULE Spec2Model ----
(***************************************************************************)
(* go-todo: the file-backed Todo repository (internal/infra/storage), the  *)
(* entity validation (internal/domain) and the CRUD usecases               *)
(* (internal/usecase), as a state machine.                                 *)
(*                                                                         *)
(* Goroutines are the processes Procs.  Every call is a sequence of steps: *)
(* the usecase's local work, the acquisition of the repository's RWMutex,  *)
(* load (os.ReadFile + json.Unmarshal) with the method's computation,      *)
(* save (json.MarshalIndent + os.WriteFile) and the deferred unlock.       *)
(***************************************************************************)
EXTENDS Integers, Sequences, FiniteSets, TLC

VARIABLES
    file,      \* the backing file: [kind, todos]
    writer,    \* the goroutine holding r.mu for writing, or NoProc
    readers,   \* the goroutines holding r.mu for reading
    clock,     \* the wall clock time.Now() reads
    calls,     \* number of calls started so far
    pc,        \* per goroutine: where it is in its call
    uop,       \* per goroutine: the usecase it runs ("none": a direct repository call)
    rop,       \* per goroutine: the repository method it runs
    todo,      \* per goroutine: the *domain.Todo it works on (<<>> is nil)
    key,       \* per goroutine: the id argument
    req,       \* per goroutine: the title and completed arguments of Update
    loaded,    \* per goroutine: the slice todos of the repository method
    ret,       \* per goroutine: the error the call returns
    assigned,  \* history: the ids given out by the committed Creates, in order
    born,      \* history: <<id, createdAt>> of the Creates whose record was not deleted since
    store0,    \* history: the content of the store at the start
    http       \* per goroutine: the request its handler serves and the status written

vars == <<file, writer, readers, clock, calls, pc, uop, rop, todo, key, req,
          loaded, ret, assigned, born, store0, http>>

(***************************************************************************)
(* Bounds of the model.                                                    *)
(***************************************************************************)
NumProcs == 2
MaxCalls == 3
MaxClock == 3

Procs == 1..NumProcs
NoProc == 0

(***************************************************************************)
(* Strings.  A title is a string of `ascii` one-byte characters, `bad`     *)
(* bytes that are not valid UTF-8 and `repl` U+FFFD runes (three bytes     *)
(* each).  StrLen is Go's len(): the length in bytes.                      *)
(***************************************************************************)
Str(a, b, r) == [ascii |-> a, bad |-> b, repl |-> r]

StrLen(s) == s.ascii + s.bad + 3 * s.repl

MaxTitleLen == 255

ErrNil == "nil"
ErrEmptyTitle == "title cannot be empty"
ErrTitleTooLong == "title too long"
ErrNotFound == "todo not found"
ErrUnmarshal == "invalid character"
ErrRead == "read error"
ErrWrite == "write error"

(***************************************************************************)
(* domain.Todo and domain.ValidateTodo.                                    *)
(***************************************************************************)
Todo(i, t, c, ca, ua) ==
    [id |-> i, title |-> t, completed |-> c, createdAt |-> ca, updatedAt |-> ua]

\* ValidateTodo without the length check
ValidateTodoNoLimit(t) ==
    IF StrLen(t.title) = 0 THEN ErrEmptyTitle ELSE ErrNil

\* ValidateTodo without the emptiness check
ValidateTodoNoEmpty(t) ==
    IF StrLen(t.title) > MaxTitleLen THEN ErrTitleTooLong ELSE ErrNil

\* ValidateTodo that counts runes, not bytes
ValidateTodoRunes(t) ==
    IF StrLen(t.title) = 0 THEN ErrEmptyTitle
    ELSE IF t.title.ascii + t.title.bad + t.title.repl > MaxTitleLen
    THEN ErrTitleTooLong
    ELSE ErrNil

\* ValidateTodo: the two checks, in the order of the code
ValidateTodo(t) ==
    IF StrLen(t.title) = 0 THEN ErrEmptyTitle
    ELSE IF StrLen(t.title) > MaxTitleLen THEN ErrTitleTooLong
    ELSE ErrNil

(***************************************************************************)
(* encoding/json as FileRepository uses it.  Marshal coerces a string to   *)
(* valid UTF-8: every byte that is not valid UTF-8 is written as the       *)
(* escape of the replacement rune U+FFFD, which Unmarshal reads back as    *)
(* that rune.  The file is kept in decoded form: the list of records its   *)
(* text denotes.                                                           *)
(***************************************************************************)
EncodeString(s) == Str(s.ascii, 0, s.repl + s.bad)

EncodeTodo(t) == [t EXCEPT !.title = EncodeString(t.title)]

MarshalIndent(todos) ==
    [kind |-> "json", todos |-> [i \in 1..Len(todos) |-> EncodeTodo(todos[i])]]

\* load without the len(data) == 0 case: json.Unmarshal fails on no input
loadEmptyIsError(f) ==
    IF f.kind = "absent" THEN [todos |-> <<>>, err |-> ErrNil]
    ELSE IF f.kind \in {"empty", "bad"} THEN [todos |-> <<>>, err |-> ErrUnmarshal]
    ELSE [todos |-> f.todos, err |-> ErrNil]

\* FileRepository.load: <<todos, err>>
load(f) ==
    IF f.kind = "absent" THEN [todos |-> <<>>, err |-> ErrNil]
    ELSE IF f.kind = "empty" THEN [todos |-> <<>>, err |-> ErrNil]
    ELSE IF f.kind = "bad" THEN [todos |-> <<>>, err |-> ErrUnmarshal]
    ELSE [todos |-> f.todos, err |-> ErrNil]

\* FileRepository.save: the file after os.WriteFile
save(todos) == MarshalIndent(todos)

(***************************************************************************)
(* The computations of the repository methods on the loaded slice.         *)
(***************************************************************************)
IDs(todos) == [i \in 1..Len(todos) |-> todos[i].id]

HasID(todos, id) == \E i \in 1..Len(todos) : todos[i].id = id

\* the "for i, t := range todos { if t.ID == id" scan: the first match, 0 when none
IndexOf(todos, id) ==
    IF HasID(todos, id)
    THEN CHOOSE i \in 1..Len(todos) :
            /\ todos[i].id = id
            /\ \A j \in 1..(i - 1) : todos[j].id # id
    ELSE 0

\* Create: maxID := 0; for ... if t.ID > maxID { maxID = t.ID }
MaxID(todos) ==
    LET ids == {todos[i].id : i \in 1..Len(todos)} \cup {0}
    IN  CHOOSE m \in ids : \A x \in ids : x <= m

\* NextID with the id taken from the number of records
NextIDByCount(todos) == Len(todos) + 1

\* NextID without the increment
NextIDNoIncrement(todos) == MaxID(todos)

\* Create: todo.ID = maxID + 1
NextID(todos) == MaxID(todos) + 1

\* CreateTodos that puts the new todo first
CreateTodosPrepend(todos, t) == <<t>> \o todos

\* Create: todos = append(todos, todo)
CreateTodos(todos, t) == Append(todos, t)

\* UpdateTodos that overwrites the first entry whatever its id
UpdateTodosFirst(todos, t) == [todos EXCEPT ![1] = t]

\* Update: todos[i] = todo
UpdateTodos(todos, t) == [todos EXCEPT ![IndexOf(todos, t.id)] = t]

\* DeleteTodos that drops the entry and everything after it
DeleteTodosTail(todos, id) == SubSeq(todos, 1, IndexOf(todos, id) - 1)

\* Delete: todos = append(todos[:i], todos[i+1:]...)
DeleteTodos(todos, id) ==
    LET i == IndexOf(todos, id)
    IN  SubSeq(todos, 1, i - 1) \o SubSeq(todos, i + 1, Len(todos))

\* UpdateScan as an upsert: an absent id is appended and saved
UpdateScanUpsert(todos, t) ==
    IF HasID(todos, t.id)
    THEN [save |-> TRUE, todos |-> UpdateTodos(todos, t), err |-> ErrNil]
    ELSE [save |-> TRUE, todos |-> Append(todos, t), err |-> ErrNil]

\* Update after load: the todos to save when the id is found, else the error
UpdateScan(todos, t) ==
    IF HasID(todos, t.id)
    THEN [save |-> TRUE, todos |-> UpdateTodos(todos, t), err |-> ErrNil]
    ELSE [save |-> FALSE, todos |-> todos, err |-> ErrNotFound]

\* DeleteScan that reports success for an absent id
DeleteScanIdempotent(todos, id) ==
    IF HasID(todos, id)
    THEN [save |-> TRUE, todos |-> DeleteTodos(todos, id), err |-> ErrNil]
    ELSE [save |-> FALSE, todos |-> todos, err |-> ErrNil]

\* Delete after load: the todos to save when the id is found, else the error
DeleteScan(todos, id) ==
    IF HasID(todos, id)
    THEN [save |-> TRUE, todos |-> DeleteTodos(todos, id), err |-> ErrNil]
    ELSE [save |-> FALSE, todos |-> todos, err |-> ErrNotFound]

(***************************************************************************)
(* sync.RWMutex: Lock waits until nobody holds the lock, RLock until no    *)
(* writer holds it.                                                        *)
(***************************************************************************)
\* Lock that excludes nobody
CanLockAlways == TRUE

\* Lock that waits for the readers only
CanLockReadersOnly == readers = {}

CanLock == writer = NoProc /\ readers = {}

\* RLock that does not wait for the writer
CanRLockAlways == TRUE

CanRLock == writer = NoProc

WriteOps == {"Create", "Update", "Delete"}

ReadOps == {"List", "FindByID"}

(***************************************************************************)
(* The usecases' local work.                                               *)
(***************************************************************************)
\* time.Now(): the clock does not go back
Now == {t \in {clock, clock + 1} : t <= MaxClock}

\* NewTodo with completed set
NewTodoCompleted(title, now) == Todo(0, title, TRUE, now, now)

\* CreateTodoUsecase.Execute: the todo it builds
NewTodo(title, now) == Todo(0, title, FALSE, now, now)

\* MutateTodo that refreshes createdAt in place of updatedAt
MutateTodoCreatedAt(t, title, completed, now) ==
    [t EXCEPT !.title = title, !.completed = completed, !.createdAt = now]

\* UpdateTodoUsecase.Execute: the three assignments to the todo FindByID returned
MutateTodo(t, title, completed, now) ==
    [t EXCEPT !.title = title, !.completed = completed, !.updatedAt = now]

(***************************************************************************)
(* Inputs.                                                                 *)
(***************************************************************************)
TitleInputs ==
    {Str(0, 0, 0), Str(MaxTitleLen, 0, 0), Str(MaxTitleLen + 1, 0, 0),
     Str(MaxTitleLen - 1, 1, 0)}

IdInputs == {1, 5, 6}

\* an id in the initial store and one that is not
IOIdInputs == {5, 6}

\* the title and completed arguments of the Update usecase
ReqInputs ==
    {[title |-> Str(0, 0, 0), completed |-> TRUE],
     [title |-> Str(3, 0, 0), completed |-> TRUE],
     [title |-> Str(MaxTitleLen + 1, 0, 0), completed |-> TRUE],
     [title |-> Str(MaxTitleLen - 1, 1, 0), completed |-> FALSE]}

\* the todos handed to FileRepository.Create and FileRepository.Update directly
CreateInputs ==
    {Todo(0, Str(3, 0, 0), FALSE, 2, 2), Todo(1, Str(0, 0, 0), TRUE, 1, 2)}

UpdateInputs == {Todo(i, Str(3, 0, 0), TRUE, 1, 2) : i \in IdInputs}

NoReq == [title |-> Str(0, 0, 0), completed |-> FALSE]

InitStores ==
    LET r4 == Todo(4, Str(1, 0, 0), FALSE, 1, 1)
        r5 == Todo(5, Str(2, 0, 0), TRUE, 1, 2)
    IN  {<<r4, r5>>}

InitFiles ==
    {[kind |-> k, todos |-> <<>>] : k \in {"absent", "empty", "bad"}}
        \cup {[kind |-> "json", todos |-> s] : s \in InitStores}

\* no request: the goroutine is not serving one
NoRequest == [op |-> "none", id |-> <<>>, body |-> <<>>, status |-> 0]

Init ==
    /\ file \in InitFiles
    /\ writer = NoProc
    /\ readers = {}
    /\ clock = 2
    /\ calls = 0
    /\ pc = [p \in Procs |-> "idle"]
    /\ uop = [p \in Procs |-> "none"]
    /\ rop = [p \in Procs |-> "none"]
    /\ todo = [p \in Procs |-> <<>>]
    /\ key = [p \in Procs |-> 0]
    /\ req = [p \in Procs |-> NoReq]
    /\ loaded = [p \in Procs |-> <<>>]
    /\ ret = [p \in Procs |-> ErrNil]
    /\ assigned = <<>>
    /\ born = {}
    /\ store0 = load(file).todos
    /\ http = [p \in Procs |-> NoRequest]

(***************************************************************************)
(* Calls.  net/http runs every request on a goroutine of its own; a new    *)
(* call takes the first goroutine that is between calls, and a goroutine   *)
(* keeps what its last call returned until it starts the next one.         *)
(***************************************************************************)
Free(p) == pc[p] \in {"idle", "done"}

CanStart(p) ==
    /\ Free(p)
    /\ \A q \in Procs : q < p => ~Free(q)
    /\ calls < MaxCalls

\* a call of repository method m: the goroutine is about to take r.mu
Enter(p, u, m, t, id, rq) ==
    /\ CanStart(p)
    /\ calls' = calls + 1
    /\ pc' = [pc EXCEPT ![p] = "lock"]
    /\ uop' = [uop EXCEPT ![p] = u]
    /\ rop' = [rop EXCEPT ![p] = m]
    /\ todo' = [todo EXCEPT ![p] = t]
    /\ key' = [key EXCEPT ![p] = id]
    /\ req' = [req EXCEPT ![p] = rq]
    /\ loaded' = [loaded EXCEPT ![p] = <<>>]
    /\ ret' = [ret EXCEPT ![p] = ErrNil]
    /\ UNCHANGED <<file, writer, readers, assigned, born, store0>>

\* CreateTodoUsecase.Execute up to the call of repo.Create, for any caller
CreateTodoUsecaseCall(p, title) ==
    \E now \in Now :
        LET t == NewTodo(title, now)
            err == ValidateTodo(t)
        IN  /\ CanStart(p)
            /\ clock' = now
            /\ calls' = calls + 1
            /\ uop' = [uop EXCEPT ![p] = "Create"]
            /\ key' = [key EXCEPT ![p] = 0]
            /\ req' = [req EXCEPT ![p] = NoReq]
            /\ loaded' = [loaded EXCEPT ![p] = <<>>]
            /\ ret' = [ret EXCEPT ![p] = err]
            /\ IF err # ErrNil
               THEN /\ pc' = [pc EXCEPT ![p] = "done"]
                    /\ rop' = [rop EXCEPT ![p] = "none"]
                    /\ todo' = [todo EXCEPT ![p] = <<>>]
               ELSE /\ pc' = [pc EXCEPT ![p] = "lock"]
                    /\ rop' = [rop EXCEPT ![p] = "Create"]
                    /\ todo' = [todo EXCEPT ![p] = <<t>>]
            /\ UNCHANGED <<file, writer, readers, assigned, born, store0>>

\* CreateTodoUsecase.Execute called directly
CreateTodoUsecaseExecute(p, title) ==
    CreateTodoUsecaseCall(p, title) /\ UNCHANGED http

\* ListTodoUsecase.Execute
ListTodoUsecaseExecute(p) ==
    Enter(p, "List", "List", <<>>, 0, NoReq) /\ UNCHANGED <<clock, http>>

\* FindByIDTodoUsecase.Execute
FindByIDTodoUsecaseExecute(p, id) ==
    Enter(p, "FindByID", "FindByID", <<>>, id, NoReq) /\ UNCHANGED <<clock, http>>

\* UpdateTodoUsecase.Execute up to the call of repo.FindByID
UpdateTodoUsecaseExecute(p, id, title, completed) ==
    /\ Enter(p, "Update", "FindByID", <<>>, id,
             [title |-> title, completed |-> completed])
    /\ UNCHANGED <<clock, http>>

\* DeleteTodoUsecase.Execute
DeleteTodoUsecaseExecute(p, id) ==
    Enter(p, "Delete", "Delete", <<>>, id, NoReq) /\ UNCHANGED <<clock, http>>

\* UpdateTodoUsecaseMutate that validates the title before it looks at the
\* error of repo.FindByID
UpdateTodoUsecaseValidateFirst(p) ==
    /\ pc[p] = "mutate"
    /\ LET verr == ValidateTodo(Todo(0, req[p].title, req[p].completed, 0, 0))
       IN  IF verr # ErrNil \/ ret[p] # ErrNil
           THEN /\ pc' = [pc EXCEPT ![p] = "done"]
                /\ ret' = [ret EXCEPT ![p] = IF verr # ErrNil THEN verr ELSE @]
                /\ todo' = [todo EXCEPT ![p] = <<>>]
                /\ req' = [req EXCEPT ![p] = NoReq]
                /\ UNCHANGED <<clock, rop>>
           ELSE \E now \in Now :
                    /\ clock' = now
                    /\ pc' = [pc EXCEPT ![p] = "lock"]
                    /\ todo' = [todo EXCEPT ![p] =
                                    <<MutateTodo(todo[p][1], req[p].title,
                                                 req[p].completed, now)>>]
                    /\ rop' = [rop EXCEPT ![p] = "Update"]
                    /\ UNCHANGED <<ret, req>>
    /\ UNCHANGED <<http, file, writer, readers, calls, uop, key, loaded, assigned,
                   born, store0>>

\* UpdateTodoUsecase.Execute from the return of repo.FindByID to the call of
\* repo.Update
UpdateTodoUsecaseMutate(p) ==
    /\ pc[p] = "mutate"
    /\ IF ret[p] # ErrNil
       THEN /\ pc' = [pc EXCEPT ![p] = "done"]
            /\ todo' = [todo EXCEPT ![p] = <<>>]
            /\ req' = [req EXCEPT ![p] = NoReq]
            /\ UNCHANGED <<clock, rop, ret>>
       ELSE \E now \in Now :
                LET t == MutateTodo(todo[p][1], req[p].title, req[p].completed, now)
                    err == ValidateTodo(t)
                IN  /\ clock' = now
                    /\ ret' = [ret EXCEPT ![p] = err]
                    /\ IF err # ErrNil
                       THEN /\ pc' = [pc EXCEPT ![p] = "done"]
                            /\ todo' = [todo EXCEPT ![p] = <<>>]
                            /\ req' = [req EXCEPT ![p] = NoReq]
                            /\ UNCHANGED rop
                       ELSE /\ pc' = [pc EXCEPT ![p] = "lock"]
                            /\ todo' = [todo EXCEPT ![p] = <<t>>]
                            /\ rop' = [rop EXCEPT ![p] = "Update"]
                            /\ UNCHANGED req
    /\ UNCHANGED <<http, file, writer, readers, calls, uop, key, loaded, assigned,
                   born, store0>>

(***************************************************************************)
(* Direct calls of the repository methods (domain.IRepository).            *)
(***************************************************************************)
\* FileRepository.Create(ctx, todo), called
Create(p, t) == Enter(p, "none", "Create", <<t>>, 0, NoReq) /\ UNCHANGED <<clock, http>>

\* FileRepository.List(ctx), called
List(p) == Enter(p, "none", "List", <<>>, 0, NoReq) /\ UNCHANGED <<clock, http>>

\* FileRepository.FindByID(ctx, id), called
FindByID(p, id) == Enter(p, "none", "FindByID", <<>>, id, NoReq) /\ UNCHANGED <<clock, http>>

\* FileRepository.Update(ctx, todo), called
Update(p, t) == Enter(p, "none", "Update", <<t>>, 0, NoReq) /\ UNCHANGED <<clock, http>>

\* FileRepository.Delete(ctx, id), called
Delete(p, id) == Enter(p, "none", "Delete", <<>>, id, NoReq) /\ UNCHANGED <<clock, http>>

(***************************************************************************)
(* The steps of the repository methods.                                    *)
(***************************************************************************)
\* r.mu.Lock()
Lock(p) ==
    /\ pc[p] = "lock"
    /\ rop[p] \in WriteOps
    /\ CanLock
    /\ writer' = p
    /\ pc' = [pc EXCEPT ![p] = "load"]
    /\ UNCHANGED <<http, file, readers, clock, calls, uop, rop, todo, key, req,
                   loaded, ret, assigned, born, store0>>

\* r.mu.RLock()
RLock(p) ==
    /\ pc[p] = "lock"
    /\ rop[p] \in ReadOps
    /\ CanRLock
    /\ readers' = readers \cup {p}
    /\ pc' = [pc EXCEPT ![p] = "load"]
    /\ UNCHANGED <<http, file, writer, clock, calls, uop, rop, todo, key, req,
                   loaded, ret, assigned, born, store0>>

\* Create: r.load(), the id, the append; the next step is r.save(todos)
CreateLoad(p) ==
    /\ pc[p] = "load"
    /\ rop[p] = "Create"
    /\ LET l == load(file)
           t == [todo[p][1] EXCEPT !.id = NextID(l.todos)]
       IN  IF l.err # ErrNil
           THEN /\ ret' = [ret EXCEPT ![p] = l.err]
                /\ pc' = [pc EXCEPT ![p] = "unlock"]
                /\ UNCHANGED <<todo, loaded>>
           ELSE /\ todo' = [todo EXCEPT ![p] = <<t>>]
                /\ loaded' = [loaded EXCEPT ![p] = CreateTodos(l.todos, t)]
                /\ pc' = [pc EXCEPT ![p] = "save"]
                /\ UNCHANGED ret
    /\ UNCHANGED <<http, file, writer, readers, clock, calls, uop, rop, key, req,
                   assigned, born, store0>>

\* Update: r.load() and the scan; the next step is r.save(todos) when found
UpdateLoad(p) ==
    /\ pc[p] = "load"
    /\ rop[p] = "Update"
    /\ LET l == load(file)
           r == UpdateScan(l.todos, todo[p][1])
       IN  IF l.err # ErrNil
           THEN /\ ret' = [ret EXCEPT ![p] = l.err]
                /\ pc' = [pc EXCEPT ![p] = "unlock"]
                /\ UNCHANGED loaded
           ELSE IF r.save
           THEN /\ loaded' = [loaded EXCEPT ![p] = r.todos]
                /\ pc' = [pc EXCEPT ![p] = "save"]
                /\ UNCHANGED ret
           ELSE /\ ret' = [ret EXCEPT ![p] = r.err]
                /\ pc' = [pc EXCEPT ![p] = "unlock"]
                /\ UNCHANGED loaded
    /\ UNCHANGED <<http, file, writer, readers, clock, calls, uop, rop, todo, key,
                   req, assigned, born, store0>>

\* Delete: r.load() and the scan; the next step is r.save(todos) when found
DeleteLoad(p) ==
    /\ pc[p] = "load"
    /\ rop[p] = "Delete"
    /\ LET l == load(file)
           r == DeleteScan(l.todos, key[p])
       IN  IF l.err # ErrNil
           THEN /\ ret' = [ret EXCEPT ![p] = l.err]
                /\ pc' = [pc EXCEPT ![p] = "unlock"]
                /\ UNCHANGED loaded
           ELSE IF r.save
           THEN /\ loaded' = [loaded EXCEPT ![p] = r.todos]
                /\ pc' = [pc EXCEPT ![p] = "save"]
                /\ UNCHANGED ret
           ELSE /\ ret' = [ret EXCEPT ![p] = r.err]
                /\ pc' = [pc EXCEPT ![p] = "unlock"]
                /\ UNCHANGED loaded
    /\ UNCHANGED <<http, file, writer, readers, clock, calls, uop, rop, todo, key,
                   req, assigned, born, store0>>

\* ListLoad that creates the file when it is missing
ListLoadCreatesFile(p) ==
    /\ pc[p] = "load"
    /\ rop[p] = "List"
    /\ ret' = [ret EXCEPT ![p] = load(file).err]
    /\ loaded' = [loaded EXCEPT ![p] = load(file).todos]
    /\ pc' = [pc EXCEPT ![p] = "unlock"]
    /\ file' = IF file.kind = "absent" THEN save(<<>>) ELSE file
    /\ UNCHANGED <<http, writer, readers, clock, calls, uop, rop, todo, key,
                   req, assigned, born, store0>>

\* ListLoad that answers from the list read at the start
ListLoadCached(p) ==
    /\ pc[p] = "load"
    /\ rop[p] = "List"
    /\ ret' = [ret EXCEPT ![p] = load(file).err]
    /\ loaded' = [loaded EXCEPT ![p] = store0]
    /\ pc' = [pc EXCEPT ![p] = "unlock"]
    /\ UNCHANGED <<http, file, writer, readers, clock, calls, uop, rop, todo, key,
                   req, assigned, born, store0>>

\* List: return r.load()
ListLoad(p) ==
    /\ pc[p] = "load"
    /\ rop[p] = "List"
    /\ LET l == load(file)
       IN  /\ ret' = [ret EXCEPT ![p] = l.err]
           /\ loaded' = [loaded EXCEPT ![p] = l.todos]
    /\ pc' = [pc EXCEPT ![p] = "unlock"]
    /\ UNCHANGED <<http, file, writer, readers, clock, calls, uop, rop, todo, key,
                   req, assigned, born, store0>>

\* FindByID: r.load() and the scan
FindByIDLoad(p) ==
    /\ pc[p] = "load"
    /\ rop[p] = "FindByID"
    /\ LET l == load(file)
       IN  IF l.err # ErrNil
           THEN /\ ret' = [ret EXCEPT ![p] = l.err]
                /\ todo' = [todo EXCEPT ![p] = <<>>]
           ELSE IF HasID(l.todos, key[p])
           THEN /\ ret' = [ret EXCEPT ![p] = ErrNil]
                /\ todo' = [todo EXCEPT ![p] = <<l.todos[IndexOf(l.todos, key[p])]>>]
           ELSE /\ ret' = [ret EXCEPT ![p] = ErrNotFound]
                /\ todo' = [todo EXCEPT ![p] = <<>>]
    /\ pc' = [pc EXCEPT ![p] = "unlock"]
    /\ UNCHANGED <<http, file, writer, readers, clock, calls, uop, rop, key, req,
                   loaded, assigned, born, store0>>

\* r.save(todos) of Create, Update and Delete
Save(p) ==
    /\ pc[p] = "save"
    /\ file' = save(loaded[p])
    /\ ret' = [ret EXCEPT ![p] = ErrNil]
    /\ pc' = [pc EXCEPT ![p] = "unlock"]
    /\ assigned' = IF rop[p] = "Create"
                   THEN Append(assigned, todo[p][1].id)
                   ELSE assigned
    /\ born' = IF rop[p] = "Create"
               THEN {b \in born : b[1] # todo[p][1].id}
                        \cup {<<todo[p][1].id, todo[p][1].createdAt>>}
               ELSE IF rop[p] = "Delete"
               THEN {b \in born : b[1] # key[p]}
               ELSE born
    /\ UNCHANGED <<http, writer, readers, clock, calls, uop, rop, todo, key, req,
                   loaded, store0>>

\* Unlock under a Delete usecase that drops the repository's error
UnlockErrorDropped(p) ==
    /\ pc[p] = "unlock"
    /\ rop[p] \in WriteOps
    /\ writer' = IF writer = p THEN NoProc ELSE writer
    /\ pc' = [pc EXCEPT ![p] = "done"]
    /\ ret' = [ret EXCEPT ![p] = IF uop[p] = "Delete" THEN ErrNil ELSE @]
    /\ todo' = [todo EXCEPT ![p] =
                    IF uop[p] # "none" /\ ret[p] # ErrNil THEN <<>> ELSE @]
    /\ loaded' = [loaded EXCEPT ![p] = <<>>]
    /\ key' = [key EXCEPT ![p] = 0]
    /\ req' = [req EXCEPT ![p] = NoReq]
    /\ UNCHANGED <<http, file, readers, clock, calls, uop, rop, assigned, born,
                   store0>>

\* Unlock without the defer: the lock is released only at the return nil at
\* the end of the method, not at the returns of an error
UnlockAtEndOnly(p) ==
    /\ pc[p] = "unlock"
    /\ rop[p] \in WriteOps
    /\ writer' = IF writer = p /\ ret[p] = ErrNil THEN NoProc ELSE writer
    /\ pc' = [pc EXCEPT ![p] = "done"]
    /\ todo' = [todo EXCEPT ![p] =
                    IF uop[p] # "none" /\ ret[p] # ErrNil THEN <<>> ELSE @]
    /\ loaded' = [loaded EXCEPT ![p] = <<>>]
    /\ key' = [key EXCEPT ![p] = 0]
    /\ req' = [req EXCEPT ![p] = NoReq]
    /\ UNCHANGED <<http, file, readers, clock, calls, uop, rop, ret, assigned,
                   born, store0>>

\* the deferred r.mu.Unlock() and the return to the caller; a usecase that got
\* an error returns nil, err
Unlock(p) ==
    /\ pc[p] = "unlock"
    /\ rop[p] \in WriteOps
    /\ writer' = IF writer = p THEN NoProc ELSE writer
    /\ pc' = [pc EXCEPT ![p] = "done"]
    /\ todo' = [todo EXCEPT ![p] =
                    IF uop[p] # "none" /\ ret[p] # ErrNil THEN <<>> ELSE @]
    /\ loaded' = [loaded EXCEPT ![p] = <<>>]
    /\ key' = [key EXCEPT ![p] = 0]
    /\ req' = [req EXCEPT ![p] = NoReq]
    /\ UNCHANGED <<http, file, readers, clock, calls, uop, rop, ret, assigned, born,
                   store0>>

\* the deferred r.mu.RUnlock() and the return to the caller
RUnlock(p) ==
    /\ pc[p] = "unlock"
    /\ rop[p] \in ReadOps
    /\ readers' = readers \ {p}
    /\ pc' = [pc EXCEPT ![p] = IF uop[p] = "Update" THEN "mutate" ELSE "done"]
    /\ key' = [key EXCEPT ![p] = 0]
    /\ UNCHANGED <<http, file, writer, clock, calls, uop, rop, todo, req, loaded,
                   ret, assigned, born, store0>>

\* the steps inside the repository
RepoStep(p) ==
    \/ Lock(p)
    \/ RLock(p)
    \/ CreateLoad(p)
    \/ UpdateLoad(p)
    \/ DeleteLoad(p)
    \/ ListLoad(p)
    \/ FindByIDLoad(p)
    \/ Save(p)
    \/ Unlock(p)
    \/ RUnlock(p)

(***************************************************************************)
(* Spec: goroutines calling the usecases, as the handlers of main do.      *)
(***************************************************************************)
Next ==
    \E p \in Procs :
        \/ \E title \in TitleInputs : CreateTodoUsecaseExecute(p, title)
        \/ ListTodoUsecaseExecute(p)
        \/ \E id \in IdInputs : FindByIDTodoUsecaseExecute(p, id)
        \/ \E id \in IdInputs, rq \in ReqInputs :
                UpdateTodoUsecaseExecute(p, id, rq.title, rq.completed)
        \/ \E id \in IdInputs : DeleteTodoUsecaseExecute(p, id)
        \/ UpdateTodoUsecaseMutate(p)
        \/ RepoStep(p)

Spec == Init /\ [][Next]_vars

(***************************************************************************)
(* SpecCreateUsecase: goroutines calling the Create and List usecases.     *)
(***************************************************************************)
NextCreateUsecase ==
    \E p \in Procs :
        \/ \E title \in TitleInputs : CreateTodoUsecaseExecute(p, title)
        \/ ListTodoUsecaseExecute(p)
        \/ Lock(p)
        \/ RLock(p)
        \/ CreateLoad(p)
        \/ ListLoad(p)
        \/ Save(p)
        \/ Unlock(p)
        \/ RUnlock(p)

SpecCreateUsecase == Init /\ [][NextCreateUsecase]_vars

(***************************************************************************)
(* SpecUpdateUsecase: goroutines calling the Update and Delete usecases.   *)
(***************************************************************************)
NextUpdateUsecase ==
    \E p \in Procs :
        \/ \E id \in IOIdInputs, rq \in {r \in ReqInputs : r.title.bad = 0} :
                UpdateTodoUsecaseExecute(p, id, rq.title, rq.completed)
        \/ DeleteTodoUsecaseExecute(p, 5)
        \/ UpdateTodoUsecaseMutate(p)
        \/ RLock(p)
        \/ FindByIDLoad(p)
        \/ RUnlock(p)
        \/ Lock(p)
        \/ UpdateLoad(p)
        \/ DeleteLoad(p)
        \/ Save(p)
        \/ Unlock(p)

SpecUpdateUsecase == Init /\ [][NextUpdateUsecase]_vars

(***************************************************************************)
(* SpecRepo: goroutines calling the repository methods directly.           *)
(***************************************************************************)
NextRepo ==
    \E p \in Procs :
        \/ \E t \in CreateInputs : Create(p, t)
        \/ List(p)
        \/ \E id \in IdInputs : FindByID(p, id)
        \/ \E t \in UpdateInputs : Update(p, t)
        \/ \E id \in IdInputs : Delete(p, id)
        \/ RepoStep(p)

SpecRepo == Init /\ [][NextRepo]_vars

(***************************************************************************)
(* SpecCreate: goroutines calling FileRepository.Create only.              *)
(***************************************************************************)
NextCreate ==
    \E p \in Procs :
        \/ \E t \in CreateInputs : Create(p, t)
        \/ Lock(p)
        \/ CreateLoad(p)
        \/ Save(p)
        \/ Unlock(p)

SpecCreate == Init /\ [][NextCreate]_vars

(***************************************************************************)
(* SpecIO: SpecRepo on a file system whose reads and writes can fail.      *)
(***************************************************************************)
\* load: os.ReadFile returns an error that is not os.ErrNotExist, and the
\* method returns it
LoadFail(p) ==
    /\ pc[p] = "load"
    /\ ret' = [ret EXCEPT ![p] = ErrRead]
    /\ pc' = [pc EXCEPT ![p] = "unlock"]
    /\ todo' = [todo EXCEPT ![p] = IF rop[p] = "FindByID" THEN <<>> ELSE @]
    /\ loaded' = [loaded EXCEPT ![p] = <<>>]
    /\ UNCHANGED <<http, file, writer, readers, clock, calls, uop, rop, key, req,
                   assigned, born, store0>>

\* what a failed os.WriteFile leaves: the file as it was when the open
\* failed, else the truncated file with none or a part of the data
FailedWrites(f) ==
    {f, [kind |-> "empty", todos |-> <<>>], [kind |-> "bad", todos |-> <<>>]}

\* SaveFail that reports success
SaveFailSwallowed(p) ==
    /\ pc[p] = "save"
    /\ file' \in FailedWrites(file)
    /\ ret' = [ret EXCEPT ![p] = ErrNil]
    /\ pc' = [pc EXCEPT ![p] = "unlock"]
    /\ born' = IF file' = file THEN born ELSE {}
    /\ UNCHANGED <<http, writer, readers, clock, calls, uop, rop, todo, key, req,
                   loaded, assigned, store0>>

\* r.save(todos): os.WriteFile fails, and the method returns its error
SaveFail(p) ==
    /\ pc[p] = "save"
    /\ file' \in FailedWrites(file)
    /\ ret' = [ret EXCEPT ![p] = ErrWrite]
    /\ pc' = [pc EXCEPT ![p] = "unlock"]
    /\ born' = IF file' = file THEN born ELSE {}
    /\ UNCHANGED <<http, writer, readers, clock, calls, uop, rop, todo, key, req,
                   loaded, assigned, store0>>

NextIO ==
    \E p \in Procs :
        \/ Create(p, Todo(0, Str(3, 0, 0), FALSE, 2, 2))
        \/ List(p)
        \/ \E id \in IOIdInputs : FindByID(p, id)
        \/ \E id \in IOIdInputs : Update(p, Todo(id, Str(3, 0, 0), TRUE, 1, 2))
        \/ \E id \in IOIdInputs : Delete(p, id)
        \/ RepoStep(p)
        \/ LoadFail(p)
        \/ SaveFail(p)

SpecIO == Init /\ [][NextIO]_vars

(***************************************************************************)
(* SpecOwner: callers of the repository that go on to change the todos     *)
(* they hold: the todo they passed to Create or Update, the todo FindByID  *)
(* returned, the list List returned.  These are objects of the caller:     *)
(* load builds its todos with json.Unmarshal, save writes bytes, and       *)
(* FileRepository has no field that keeps a todo.                          *)
(***************************************************************************)
\* what the caller writes into a todo it holds
CallerEdit(t) == [t EXCEPT !.title = Str(7, 0, 0), !.completed = ~@]

Edited(ts) == \A i \in 1..Len(ts) : ts[i].title = Str(7, 0, 0)

\* CallerMutate on a store that shares its todos with the callers: the
\* change shows in the stored record of the same id
CallerMutateShared(p) ==
    /\ pc[p] = "done"
    /\ uop[p] = "none"
    /\ todo[p] # <<>>
    /\ ~Edited(todo[p])
    /\ todo' = [todo EXCEPT ![p] = <<CallerEdit(@[1])>>]
    /\ loaded' = [loaded EXCEPT ![p] =
                        [i \in 1..Len(@) |-> CallerEdit(@[i])]]
    /\ file' = IF file.kind = "json"
               THEN [file EXCEPT !.todos =
                        [i \in 1..Len(@) |->
                            IF @[i].id = todo[p][1].id
                            THEN CallerEdit(todo[p][1])
                            ELSE @[i]]]
               ELSE file
    /\ UNCHANGED <<http, writer, readers, clock, calls, pc, uop, rop, key, req,
                   ret, assigned, born, store0>>

\* the caller, after its call returned, assigns to the fields of the todos
\* it holds
CallerMutate(p) ==
    /\ pc[p] = "done"
    /\ uop[p] = "none"
    /\ todo[p] # <<>> \/ loaded[p] # <<>>
    /\ ~(Edited(todo[p]) /\ Edited(loaded[p]))
    /\ todo' = [todo EXCEPT ![p] = [i \in 1..Len(@) |-> CallerEdit(@[i])]]
    /\ loaded' = [loaded EXCEPT ![p] =
                        [i \in 1..Len(@) |-> CallerEdit(@[i])]]
    /\ UNCHANGED <<http, file, writer, readers, clock, calls, pc, uop, rop, key,
                   req, ret, assigned, born, store0>>

\* the caller passes the todo it got from FindByID, changed or not, to Update
UpdateHeld(p) ==
    /\ pc[p] = "done"
    /\ rop[p] = "FindByID"
    /\ todo[p] # <<>>
    /\ Enter(p, "none", "Update", todo[p], 0, NoReq)
    /\ UNCHANGED <<clock, http>>

NextOwner ==
    \E p \in Procs :
        \/ Create(p, Todo(0, Str(3, 0, 0), FALSE, 2, 2))
        \/ List(p)
        \/ FindByID(p, 5)
        \/ CallerMutate(p)
        \/ UpdateHeld(p)
        \/ Lock(p)
        \/ RLock(p)
        \/ CreateLoad(p)
        \/ UpdateLoad(p)
        \/ ListLoad(p)
        \/ FindByIDLoad(p)
        \/ Save(p)
        \/ Unlock(p)
        \/ RUnlock(p)

SpecOwner == Init /\ [][NextOwner]_vars

(***************************************************************************)
(* SpecScenario: one caller after the other runs the usecases Create("Buy  *)
(* milk"), Update(1, "Buy milk and eggs", true), Delete(1) and List, each  *)
(* call started when the one before has returned.                          *)
(***************************************************************************)
BuyMilk == Str(8, 0, 0)

BuyMilkAndEggs == Str(17, 0, 0)

\* the call that comes after n calls may start
ScenarioAt(p, n) ==
    /\ calls = n
    /\ \A q \in Procs : Free(q)
    /\ calls' = calls + 1
    /\ loaded' = [loaded EXCEPT ![p] = <<>>]
    /\ UNCHANGED <<http, file, writer, readers, assigned, born, store0>>

\* createUsecase.Execute(ctx, "Buy milk") up to the call of repo.Create
ScenarioCreate(p) ==
    \E now \in Now :
        LET t == NewTodo(BuyMilk, now)
            err == ValidateTodo(t)
        IN  /\ ScenarioAt(p, 0)
            /\ clock' = now
            /\ uop' = [uop EXCEPT ![p] = "Create"]
            /\ key' = [key EXCEPT ![p] = 0]
            /\ req' = [req EXCEPT ![p] = NoReq]
            /\ ret' = [ret EXCEPT ![p] = err]
            /\ IF err # ErrNil
               THEN /\ pc' = [pc EXCEPT ![p] = "done"]
                    /\ rop' = [rop EXCEPT ![p] = "none"]
                    /\ todo' = [todo EXCEPT ![p] = <<>>]
               ELSE /\ pc' = [pc EXCEPT ![p] = "lock"]
                    /\ rop' = [rop EXCEPT ![p] = "Create"]
                    /\ todo' = [todo EXCEPT ![p] = <<t>>]

\* a usecase that starts with a repository method: the goroutine is about to
\* take r.mu
ScenarioEnter(p, n, u, m, id, rq) ==
    /\ ScenarioAt(p, n)
    /\ pc' = [pc EXCEPT ![p] = "lock"]
    /\ uop' = [uop EXCEPT ![p] = u]
    /\ rop' = [rop EXCEPT ![p] = m]
    /\ todo' = [todo EXCEPT ![p] = <<>>]
    /\ key' = [key EXCEPT ![p] = id]
    /\ req' = [req EXCEPT ![p] = rq]
    /\ ret' = [ret EXCEPT ![p] = ErrNil]
    /\ UNCHANGED clock

\* updateUsecase.Execute(ctx, 1, "Buy milk and eggs", true) up to repo.FindByID
ScenarioUpdate(p) ==
    ScenarioEnter(p, 1, "Update", "FindByID", 1,
                  [title |-> BuyMilkAndEggs, completed |-> TRUE])

\* deleteUsecase.Execute(ctx, 1)
ScenarioDelete(p) == ScenarioEnter(p, 2, "Delete", "Delete", 1, NoReq)

\* listUsecase.Execute(ctx)
ScenarioList(p) == ScenarioEnter(p, 3, "List", "List", 0, NoReq)

NextScenario ==
    \E p \in Procs :
        \/ ScenarioCreate(p)
        \/ ScenarioUpdate(p)
        \/ ScenarioDelete(p)
        \/ ScenarioList(p)
        \/ UpdateTodoUsecaseMutate(p)
        \/ RepoStep(p)

SpecScenario == Init /\ [][NextScenario]_vars

(***************************************************************************)
(* SpecValidate: goroutines calling domain.ValidateTodo on a todo of their *)
(* own.                                                                    *)
(***************************************************************************)
ValidateTitles ==
    {Str(0, 0, 0), Str(1, 0, 0), Str(8, 0, 0), Str(MaxTitleLen, 0, 0),
     Str(MaxTitleLen + 1, 0, 0), Str(0, 0, 85), Str(1, 0, 85),
     Str(MaxTitleLen - 1, 1, 0), Str(MaxTitleLen, 1, 0)}

ValidateInputs ==
    {Todo(5, t, c, 1, 2) : t \in ValidateTitles, c \in BOOLEAN}

\* ValidateTodo(t), called: t is the caller's todo
ValidateTodoCall(p, t) ==
    /\ CanStart(p)
    /\ calls' = calls + 1
    /\ pc' = [pc EXCEPT ![p] = "validate"]
    /\ uop' = [uop EXCEPT ![p] = "none"]
    /\ rop' = [rop EXCEPT ![p] = "Validate"]
    /\ todo' = [todo EXCEPT ![p] = <<t>>]
    /\ key' = [key EXCEPT ![p] = 0]
    /\ req' = [req EXCEPT ![p] = NoReq]
    /\ loaded' = [loaded EXCEPT ![p] = <<>>]
    /\ ret' = [ret EXCEPT ![p] = ErrNil]
    /\ UNCHANGED <<http, file, writer, readers, clock, assigned, born, store0>>

\* ValidateTodo returns: it reads t.Title and assigns nothing
ValidateTodoReturn(p) ==
    /\ pc[p] = "validate"
    /\ ret' = [ret EXCEPT ![p] = ValidateTodo(todo[p][1])]
    /\ pc' = [pc EXCEPT ![p] = "done"]
    /\ UNCHANGED <<http, file, writer, readers, clock, calls, uop, rop, todo, key,
                   req, loaded, assigned, born, store0>>

NextValidate ==
    \E p \in Procs :
        \/ \E t \in ValidateInputs : ValidateTodoCall(p, t)
        \/ ValidateTodoReturn(p)

SpecValidate == Init /\ [][NextValidate]_vars

(***************************************************************************)
(* What the store holds: the list load returns.                            *)
(***************************************************************************)
Store == load(file).todos

Loadable == load(file).err = ErrNil

AllReturned == \A p \in Procs : pc[p] \in {"idle", "done"}

Distinct(ids) == \A i, j \in 1..Len(ids) : i # j => ids[i] # ids[j]

\* the largest of a set of ids, 0 for the empty set
Largest(S) == IF S = {} THEN 0 ELSE CHOOSE m \in S : \A x \in S : x <= m

StoreIDs == {Store[i].id : i \in 1..Len(Store)}

(***************************************************************************)
(* C1 (SpecCreate).  Concurrent Create calls, load and save succeeding:    *)
(* the ids given out are pairwise different, and once all calls have       *)
(* returned the store is the initial store followed by one record per      *)
(* call, each call's todo among them under the id the call got.            *)
(***************************************************************************)
C1_ConcurrentCreate ==
    file.kind # "bad" =>
        /\ Distinct(assigned)
        /\ AllReturned =>
            /\ Len(assigned) = calls
            /\ Len(Store) = Len(store0) + calls
            /\ SubSeq(Store, 1, Len(store0)) = store0
            /\ \A i \in 1..Len(assigned) : Store[Len(store0) + i].id = assigned[i]
            /\ \A p \in Procs :
                pc[p] = "done" =>
                    /\ ret[p] = ErrNil
                    /\ \E i \in 1..Len(Store) : Store[i] = EncodeTodo(todo[p][1])
            /\ \A p, q \in Procs :
                (p # q /\ pc[p] = "done" /\ pc[q] = "done")
                    => todo[p][1].id # todo[q][1].id

C1_Witness ==
    /\ \A p \in Procs : pc[p] = "done"
    /\ Len(store0) >= 1
    /\ Len(assigned) >= 2

(***************************************************************************)
(* C2 (SpecRepo).  While a mutating call is between its load and its save, *)
(* no other mutating call takes a load or a save step.                     *)
(***************************************************************************)
BetweenLoadAndSave(p) == rop[p] \in WriteOps /\ pc[p] = "save"

LoadsOrSaves(q) ==
    /\ rop[q] \in WriteOps
    /\ pc[q] \in {"load", "save"}
    /\ pc'[q] # pc[q]

C2_NoInterleaving ==
    [][\A p, q \in Procs :
          (p # q /\ BetweenLoadAndSave(p)) => ~LoadsOrSaves(q)]_vars

C2_Witness ==
    \E p, q \in Procs :
        /\ p # q
        /\ BetweenLoadAndSave(p)
        /\ rop[q] \in WriteOps
        /\ pc[q] = "lock"

(***************************************************************************)
(* C3 (SpecRepo).  The ids of the stored records are pairwise distinct,    *)
(* and a step leaves the list of ids as it is, appends one id or removes   *)
(* one id: no record that stays changes its id.                            *)
(***************************************************************************)
RemoveAt(ids, i) == SubSeq(ids, 1, i - 1) \o SubSeq(ids, i + 1, Len(ids))

IDsKept ==
    LET a == IDs(Store)
        b == IDs(Store')
    IN  \/ b = a
        \/ Len(b) = Len(a) + 1 /\ SubSeq(b, 1, Len(a)) = a
        \/ \E i \in 1..Len(a) : b = RemoveAt(a, i)

C3_UniqueImmutableIDs == [](Distinct(IDs(Store))) /\ [][IDsKept]_vars

C3_Witness ==
    \E p \in Procs :
        /\ pc[p] = "unlock"
        /\ rop[p] = "Update"
        /\ ret[p] = ErrNil
        /\ Len(Store) >= 2
        /\ Len(assigned) >= 1

(***************************************************************************)
(* C4 (SpecRepo).  As claimed: the ids the committed Creates got, in       *)
(* order, are strictly increasing.                                         *)
(***************************************************************************)
C4_StrictlyIncreasing ==
    \A i, j \in 1..Len(assigned) : i < j => assigned[i] < assigned[j]

(***************************************************************************)
(* C4 amended (SpecRepo).  A Create about to save holds an id strictly     *)
(* greater than every id in the store.                                     *)
(***************************************************************************)
C4_GreaterThanStored ==
    \A p \in Procs :
        (pc[p] = "save" /\ rop[p] = "Create")
            => \A i \in 1..Len(Store) : Store[i].id < todo[p][1].id

\* a Create about to save an id that an earlier Create already got
C4_Witness ==
    \E p \in Procs :
        /\ pc[p] = "save"
        /\ rop[p] = "Create"
        /\ Len(Store) >= 1
        /\ \E i \in 1..Len(assigned) : assigned[i] = todo[p][1].id

(***************************************************************************)
(* C5 (SpecCreate).  A Create about to save holds the largest id of the    *)
(* store (0 when it is empty) plus one; Creates on an empty store get      *)
(* 1, 2, 3, and the first Create on a store whose largest id is 5 gets 6.  *)
(***************************************************************************)
C5_MaxPlusOne ==
    /\ \A p \in Procs :
        (pc[p] = "save" /\ rop[p] = "Create")
            => todo[p][1].id = Largest(StoreIDs) + 1
    /\ (file.kind # "bad" /\ store0 = <<>>)
            => \A i \in 1..Len(assigned) : assigned[i] = i
    /\ (store0 # <<>> /\ Largest({store0[i].id : i \in 1..Len(store0)}) = 5
            /\ Len(assigned) >= 1)
            => assigned[1] = 6

C5_Witness == store0 = <<>> /\ assigned = <<1, 2, 3>>

(***************************************************************************)
(* C6 (Spec).  As claimed: a record stored under the id of a Create that   *)
(* no Delete has undone since carries the createdAt that Create set.       *)
(***************************************************************************)
C6_CreatedAtKept ==
    \A i \in 1..Len(Store) :
        \A b \in born : b[1] = Store[i].id => Store[i].createdAt = b[2]

(***************************************************************************)
(* C7 (Spec).  Every stored record has createdAt <= updatedAt.             *)
(***************************************************************************)
C7_CreatedBeforeUpdated ==
    \A i \in 1..Len(Store) : Store[i].createdAt <= Store[i].updatedAt

\* an Update usecase has just saved a record it refreshed
C7_Witness ==
    \E p \in Procs :
        /\ pc[p] = "unlock"
        /\ uop[p] = "Update"
        /\ rop[p] = "Update"
        /\ ret[p] = ErrNil
        /\ \E i \in 1..Len(Store) :
            /\ Store[i].id = todo[p][1].id
            /\ Store[i].createdAt < Store[i].updatedAt
            /\ Store[i].updatedAt = todo[p][1].updatedAt

(***************************************************************************)
(* C8 (Spec).  As claimed: every stored record has a title of 1 to 255     *)
(* bytes.                                                                  *)
(***************************************************************************)
C8_StoredTitlesValid ==
    \A i \in 1..Len(Store) :
        /\ StrLen(Store[i].title) >= 1
        /\ StrLen(Store[i].title) <= MaxTitleLen

(***************************************************************************)
(* C9 (SpecRepo).  The step of Update that loads a store without the       *)
(* todo's id writes nothing and ends the call with the not-found error,    *)
(* and the return of that call writes nothing either.                      *)
(***************************************************************************)
C9_UpdateNotFound ==
    [][\A p \in Procs :
          /\ (/\ rop[p] = "Update"
              /\ pc[p] = "load"
              /\ pc'[p] # "load"
              /\ Loadable
              /\ ~HasID(Store, todo[p][1].id))
                => /\ file' = file
                   /\ pc'[p] = "unlock"
                   /\ ret'[p] = ErrNotFound
          /\ (/\ rop[p] = "Update"
              /\ pc[p] = "unlock"
              /\ ret[p] = ErrNotFound
              /\ pc'[p] # "unlock")
                => file' = file /\ ret'[p] = ErrNotFound]_vars

C9_Witness ==
    \E p \in Procs :
        /\ rop[p] = "Update"
        /\ uop[p] = "none"
        /\ pc[p] = "done"
        /\ ret[p] = ErrNotFound
        /\ Len(Store) >= 1

(***************************************************************************)
(* C10 (SpecRepo).  The step of Delete that loads a store without the id   *)
(* writes nothing and ends the call with the not-found error, and the      *)
(* return of that call writes nothing either.                              *)
(***************************************************************************)
C10_DeleteNotFound ==
    [][\A p \in Procs :
          /\ (/\ rop[p] = "Delete"
              /\ pc[p] = "load"
              /\ pc'[p] # "load"
              /\ Loadable
              /\ ~HasID(Store, key[p]))
                => /\ file' = file
                   /\ pc'[p] = "unlock"
                   /\ ret'[p] = ErrNotFound
          /\ (/\ rop[p] = "Delete"
              /\ pc[p] = "unlock"
              /\ ret[p] = ErrNotFound
              /\ pc'[p] # "unlock")
                => file' = file /\ ret'[p] = ErrNotFound]_vars

C10_Witness ==
    \E p \in Procs :
        /\ rop[p] = "Delete"
        /\ pc[p] = "done"
        /\ ret[p] = ErrNotFound
        /\ Len(Store) >= 1

(***************************************************************************)
(* C11 (SpecRepo).  The save of a Delete(id) that found id takes exactly    *)
(* one record out of the store, the one with that id: the store is one     *)
(* shorter and the other records keep their content and their order.  The  *)
(* load of a List returns the store as it is, so a List after the Delete   *)
(* returns those n-1 records.                                              *)
(***************************************************************************)
C11_DeleteRemovesOne ==
    [][\A p \in Procs :
          /\ (rop[p] = "Delete" /\ pc[p] = "save" /\ pc'[p] # "save")
                => /\ HasID(Store, key[p])
                   /\ Len(Store') = Len(Store) - 1
                   /\ Store' = RemoveAt(Store, IndexOf(Store, key[p]))
                   /\ ~HasID(Store', key[p])
                   /\ ret'[p] = ErrNil
          /\ (rop[p] = "List" /\ pc[p] = "load" /\ pc'[p] # "load" /\ Loadable)
                => loaded'[p] = Store /\ ret'[p] = ErrNil]_vars

\* a List returned the two records a Delete of the middle one of three left
C11_Witness ==
    \E p, q \in Procs :
        /\ rop[p] = "Delete" /\ pc[p] = "done" /\ ret[p] = ErrNil
        /\ rop[q] = "List" /\ pc[q] = "unlock" /\ ret[q] = ErrNil
        /\ Len(loaded[q]) = 2
        /\ IDs(loaded[q]) = <<4, 6>>
        /\ loaded[q][1] = store0[1]

(***************************************************************************)
(* C12 (Spec).  As claimed: after the save of FileRepository.Update(todo),  *)
(* and before the lock is released, the stored entry with todo's id equals *)
(* todo.                                                                   *)
(***************************************************************************)
C12_StoredEqualsSupplied ==
    \A p \in Procs :
        (rop[p] = "Update" /\ pc[p] = "unlock" /\ ret[p] = ErrNil)
            => /\ HasID(Store, todo[p][1].id)
               /\ Store[IndexOf(Store, todo[p][1].id)] = todo[p][1]

(***************************************************************************)
(* C13 (SpecRepo).  The save of a Create puts the new record last and      *)
(* leaves the earlier entries where and as they were; no step changes the  *)
(* relative order of two records that stay.                                *)
(***************************************************************************)
OrderKept ==
    \A i, j \in 1..Len(Store) :
        \A k, l \in 1..Len(Store') :
            (i < j /\ Store[i].id = Store'[k].id /\ Store[j].id = Store'[l].id)
                => k < l

C13_InsertionOrder ==
    [][/\ OrderKept
       /\ \A p \in Procs :
            (rop[p] = "Create" /\ pc[p] = "save" /\ pc'[p] # "save")
                => /\ Len(Store') = Len(Store) + 1
                   /\ SubSeq(Store', 1, Len(Store)) = Store
                   /\ Store'[Len(Store')] = EncodeTodo(todo[p][1])
                   /\ ret'[p] = ErrNil]_vars

\* the second of two Creates on a store of two has just saved
C13_Witness ==
    \E p \in Procs :
        /\ rop[p] = "Create" /\ pc[p] = "unlock" /\ ret[p] = ErrNil
        /\ Len(Store) = 4
        /\ SubSeq(Store, 1, 2) = store0
        /\ IDs(Store) = <<4, 5, 6, 7>>
        /\ Store[4] = EncodeTodo(todo[p][1])

(***************************************************************************)
(* C14 (SpecCreateUsecase).  A Create usecase call whose title is empty or *)
(* longer than 255 bytes ends at once with the validation error and a nil  *)
(* todo: it takes no step of FileRepository.Create and the file stays as   *)
(* it is.  A call that goes on to FileRepository.Create carries a title of *)
(* 1 to 255 bytes.                                                         *)
(***************************************************************************)
ValidationErrors == {ErrEmptyTitle, ErrTitleTooLong}

\* the step is the start of a Create usecase call by p
StartsCreateUsecase(p) ==
    /\ CanStart(p)
    /\ calls' = calls + 1
    /\ uop'[p] = "Create"

C14_CreateInvalidTitle ==
    /\ [][\A p \in Procs :
            StartsCreateUsecase(p) =>
                \/ /\ pc'[p] = "lock"
                   /\ rop'[p] = "Create"
                   /\ ret'[p] = ErrNil
                   /\ StrLen(todo'[p][1].title) \in 1..MaxTitleLen
                \/ /\ pc'[p] = "done"
                   /\ rop'[p] = "none"
                   /\ ret'[p] \in ValidationErrors
                   /\ todo'[p] = <<>>
                   /\ file' = file]_vars
    /\ [](\A p \in Procs :
            (uop[p] = "Create" /\ ret[p] \in ValidationErrors)
                => pc[p] = "done" /\ rop[p] = "none" /\ todo[p] = <<>>)

\* a Create usecase call has returned the too-long error on a store of two
C14_Witness ==
    \E p \in Procs :
        /\ uop[p] = "Create"
        /\ pc[p] = "done"
        /\ ret[p] = ErrTitleTooLong
        /\ todo[p] = <<>>
        /\ Store = store0
        /\ Len(Store) = 2

(***************************************************************************)
(* C15 (SpecUpdateUsecase).  An Update usecase call whose FindByID found   *)
(* the record and whose title is empty or longer than 255 bytes ends with  *)
(* the validation error and a nil todo without calling                     *)
(* FileRepository.Update; no step of the call up to there writes the file, *)
(* so the record stays as it was.                                          *)
(***************************************************************************)
C15_UpdateInvalidTitle ==
    /\ [][\A p \in Procs :
            /\ (/\ uop[p] = "Update"
                /\ pc[p] = "mutate"
                /\ pc'[p] # "mutate"
                /\ ret[p] = ErrNil
                /\ StrLen(req[p].title) \notin 1..MaxTitleLen)
                  => /\ pc'[p] = "done"
                     /\ rop'[p] = "FindByID"
                     /\ ret'[p] = IF StrLen(req[p].title) = 0
                                  THEN ErrEmptyTitle
                                  ELSE ErrTitleTooLong
                     /\ todo'[p] = <<>>
                     /\ file' = file
            /\ (uop[p] = "Update" /\ rop[p] = "FindByID" /\ pc'[p] # pc[p])
                  => file' = file]_vars
    /\ [](\A p \in Procs :
            (uop[p] = "Update" /\ ret[p] \in ValidationErrors)
                => pc[p] = "done" /\ rop[p] = "FindByID" /\ todo[p] = <<>>)

\* an Update usecase call has returned the too-long error, the store as before
C15_Witness ==
    \E p \in Procs :
        /\ uop[p] = "Update"
        /\ pc[p] = "done"
        /\ ret[p] = ErrTitleTooLong
        /\ calls = 1
        /\ Store = store0
        /\ Len(Store) = 2

(***************************************************************************)
(* C16 (SpecUpdateUsecase).  An Update usecase call whose FindByID loads a *)
(* store without the id gets the not-found error from it and returns that  *)
(* error and a nil todo whatever the title is, an empty one included; no   *)
(* step of the call writes the file.                                       *)
(***************************************************************************)
C16_UpdateAbsentID ==
    [][\A p \in Procs :
          /\ (/\ uop[p] = "Update"
              /\ rop[p] = "FindByID"
              /\ pc[p] = "load"
              /\ pc'[p] # "load"
              /\ Loadable
              /\ ~HasID(Store, key[p]))
                => ret'[p] = ErrNotFound /\ file' = file
          /\ (/\ uop[p] = "Update"
              /\ rop[p] = "FindByID"
              /\ pc[p] = "unlock"
              /\ pc'[p] # "unlock")
                => ret'[p] = ret[p] /\ file' = file
          /\ (/\ uop[p] = "Update"
              /\ pc[p] = "mutate"
              /\ pc'[p] # "mutate"
              /\ ret[p] = ErrNotFound)
                => /\ pc'[p] = "done"
                   /\ ret'[p] = ErrNotFound
                   /\ rop'[p] = "FindByID"
                   /\ todo'[p] = <<>>
                   /\ file' = file]_vars

\* FindByID has returned not-found to an Update usecase call with an empty
\* title on a store of two
C16_Witness ==
    \E p \in Procs :
        /\ uop[p] = "Update"
        /\ pc[p] = "mutate"
        /\ ret[p] = ErrNotFound
        /\ StrLen(req[p].title) = 0
        /\ Len(Store) = 2

(***************************************************************************)
(* C17 (Spec).  As claimed: an Update usecase call that is the only call   *)
(* made so far and has just saved stored a record with its title and       *)
(* completed arguments, the id and createdAt of the record before, and the *)
(* time of the call as updatedAt, not earlier than the one before; the     *)
(* todo it returns is that record.                                         *)
(***************************************************************************)
C17_UpdateStoresArguments ==
    \A p \in Procs :
        (/\ calls = 1
         /\ uop[p] = "Update"
         /\ rop[p] = "Update"
         /\ pc[p] = "unlock"
         /\ ret[p] = ErrNil)
            => LET t == todo[p][1]
                   s == Store[IndexOf(Store, t.id)]
                   o == store0[IndexOf(store0, t.id)]
               IN  /\ HasID(Store, t.id) /\ HasID(store0, t.id)
                   /\ t.title = req[p].title /\ t.completed = req[p].completed
                   /\ s.title = req[p].title /\ s.completed = req[p].completed
                   /\ s.id = o.id /\ s.createdAt = o.createdAt
                   /\ t.id = o.id /\ t.createdAt = o.createdAt
                   /\ s.updatedAt = clock /\ t.updatedAt = clock
                   /\ s.updatedAt >= o.updatedAt

(***************************************************************************)
(* C18 (SpecValidate).  ValidateTodo returns nil exactly for the titles of *)
(* 1 to 255 bytes, the empty-title error for the title of no bytes and the *)
(* too-long error for the titles of more than 255 bytes, and leaves the    *)
(* todo as it got it.                                                      *)
(***************************************************************************)
C18_ValidateTodo ==
    [][\A p \in Procs :
          (rop[p] = "Validate" /\ pc[p] = "validate" /\ pc'[p] # "validate")
            => LET n == StrLen(todo[p][1].title)
               IN  /\ todo'[p] = todo[p]
                   /\ (ret'[p] = ErrNil) <=> (n >= 1 /\ n <= 255)
                   /\ (n = 0) => ret'[p] = ErrEmptyTitle
                   /\ (n > 255) => ret'[p] = ErrTitleTooLong
                   /\ (n = 255) => ret'[p] = ErrNil
                   /\ (n = 256) => ret'[p] = ErrTitleTooLong]_vars

\* a title of 255 bytes was accepted and one of 256 bytes in 86 runes rejected
C18_Witness ==
    \E p, q \in Procs :
        /\ rop[p] = "Validate" /\ pc[p] = "done"
        /\ rop[q] = "Validate" /\ pc[q] = "done"
        /\ StrLen(todo[p][1].title) = 255 /\ ret[p] = ErrNil
        /\ todo[q][1].title = Str(1, 0, 85) /\ ret[q] = ErrTitleTooLong

(***************************************************************************)
(* C19 (SpecRepo).  On a missing and on a zero-byte file the repository    *)
(* methods do what they do on an empty list: List returns no records and   *)
(* no error; FindByID, Update and Delete return not-found and write        *)
(* nothing; Create gives id 1 and its save leaves a store of that one      *)
(* record.                                                                 *)
(***************************************************************************)
NoRecords == file.kind \in {"absent", "empty"}

C19_MissingOrEmptyFile ==
    [][\A p \in Procs :
          /\ (NoRecords /\ pc[p] = "load" /\ pc'[p] # "load") =>
                /\ rop[p] = "List" =>
                      ret'[p] = ErrNil /\ loaded'[p] = <<>> /\ file' = file
                /\ rop[p] = "FindByID" =>
                      ret'[p] = ErrNotFound /\ todo'[p] = <<>> /\ file' = file
                /\ rop[p] \in {"Update", "Delete"} =>
                      ret'[p] = ErrNotFound /\ pc'[p] = "unlock" /\ file' = file
                /\ rop[p] = "Create" =>
                      /\ pc'[p] = "save"
                      /\ todo'[p][1].id = 1
                      /\ Len(loaded'[p]) = 1
          /\ (NoRecords /\ pc[p] = "save" /\ pc'[p] # "save") =>
                /\ rop[p] = "Create"
                /\ ret'[p] = ErrNil
                /\ Len(Store') = 1
                /\ Store'[1] = EncodeTodo(todo[p][1])
                /\ Store'[1].id = 1]_vars

\* on a zero-byte file a Delete returned not-found, and a Create has saved
C19_Witness ==
    \E p, q \in Procs :
        /\ store0 = <<>>
        /\ rop[p] = "Delete" /\ pc[p] = "done" /\ ret[p] = ErrNotFound
        /\ rop[q] = "Create" /\ pc[q] = "unlock" /\ ret[q] = ErrNil
        /\ IDs(Store) = <<1>>
        /\ assigned = <<1>>

(***************************************************************************)
(* C20 (SpecIO).  A repository method whose load fails, on malformed       *)
(* content or on a read error, ends with that error, which is not the      *)
(* not-found error, hands out no todo and no list, and writes nothing; a   *)
(* method reports success of its save only when the file holds what it     *)
(* saved, and the error of a load or a save is the error the call returns. *)
(***************************************************************************)
StorageErrors == {ErrUnmarshal, ErrRead, ErrWrite}

C20_StorageErrorsReturned ==
    [][\A p \in Procs :
          /\ (pc[p] = "load" /\ pc'[p] # "load") =>
                /\ ~Loadable => ret'[p] \in {ErrUnmarshal, ErrRead}
                /\ ret'[p] \in {ErrUnmarshal, ErrRead} =>
                      /\ pc'[p] = "unlock"
                      /\ file' = file
                      /\ loaded'[p] = <<>>
                      /\ rop[p] = "FindByID" => todo'[p] = <<>>
                      /\ rop[p] \in {"Create", "Update"} => todo'[p] = todo[p]
          /\ (pc[p] = "save" /\ pc'[p] # "save") =>
                /\ pc'[p] = "unlock"
                /\ ret'[p] \in {ErrNil, ErrWrite}
                /\ ret'[p] = ErrNil => file' = save(loaded[p])
          /\ (pc[p] = "unlock" /\ pc'[p] # "unlock") =>
                /\ pc'[p] = "done"
                /\ ret'[p] = ret[p]
                /\ file' = file]_vars

\* a Create returned the error of its failed write, which left part of the
\* data, and a List returned the error of parsing that file
C20_Witness ==
    \E p, q \in Procs :
        /\ rop[p] = "Create" /\ pc[p] = "done" /\ ret[p] = ErrWrite
        /\ rop[q] = "List" /\ pc[q] = "done" /\ ret[q] = ErrUnmarshal
        /\ loaded[q] = <<>>
        /\ Len(store0) = 2
        /\ file.kind = "bad"

(***************************************************************************)
(* C21 (SpecOwner).  A caller's change of the todos it holds changes       *)
(* neither the file nor what another caller holds; the file changes only   *)
(* in the save step of a Create or an Update, to the list that call saves; *)
(* and List and FindByID return what the file holds, whatever the callers  *)
(* did to the todos they got before.                                       *)
(***************************************************************************)
CallerChanges(p) ==
    /\ pc[p] = "done"
    /\ pc'[p] = "done"
    /\ calls' = calls
    /\ (todo'[p] # todo[p] \/ loaded'[p] # loaded[p])

EmptyAtStart == store0 = <<>> /\ file.kind # "bad"

Returned(p, u, n) == calls = n /\ uop[p] = u /\ pc[p] = "done"

C22_EndToEnd ==
    \A p \in Procs :
        EmptyAtStart =>
            /\ Returned(p, "Create", 1) =>
                /\ ret[p] = ErrNil
                /\ Len(todo[p]) = 1
                /\ todo[p][1].id = 1
                /\ todo[p][1].title = BuyMilk
                /\ todo[p][1].completed = FALSE
                /\ todo[p][1].updatedAt = todo[p][1].createdAt
                /\ Store = todo[p]
            /\ Returned(p, "Update", 2) =>
                /\ ret[p] = ErrNil
                /\ Len(todo[p]) = 1
                /\ todo[p][1].id = 1
                /\ todo[p][1].title = BuyMilkAndEggs
                /\ todo[p][1].completed = TRUE
                /\ born = {<<1, todo[p][1].createdAt>>}
                /\ todo[p][1].updatedAt = clock
                /\ todo[p][1].updatedAt >= todo[p][1].createdAt
                /\ Store = todo[p]
            /\ Returned(p, "Delete", 3) =>
                /\ ret[p] = ErrNil
                /\ Store = <<>>
                /\ file.kind = "json"
            /\ Returned(p, "List", 4) =>
                /\ ret[p] = ErrNil
                /\ loaded[p] = <<>>

\* the four calls have returned, List last, and the clock ticked on the way
C22_Witness ==
    \E p \in Procs :
        /\ EmptyAtStart
        /\ Returned(p, "List", 4)
        /\ loaded[p] = <<>>
        /\ assigned = <<1>>
        /\ file.kind = "json"
        /\ clock = 3

(***************************************************************************)
(* C23 (SpecRepo).  The load step of a List returns the list the file      *)
(* holds and changes nothing, and the file changes only in the save step   *)
(* of a mutating call, so two Lists with no save between them return the   *)
(* same list; two Lists that hold the read lock together have loaded the   *)
(* same list, the one the file holds.                                      *)
(***************************************************************************)
HoldsList(p) == rop[p] = "List" /\ pc[p] = "unlock"

C24_RoundTrip ==
    \A p \in Procs :
        (rop[p] \in WriteOps /\ pc[p] = "unlock" /\ ret[p] = ErrNil) =>
            /\ file = save(loaded[p])
            /\ file.kind = "json"
            /\ load(file).err = ErrNil
            /\ Len(load(file).todos) = Len(loaded[p])
            /\ \A i \in 1..Len(loaded[p]) :
                   /\ load(file).todos[i].id = loaded[p][i].id
                   /\ load(file).todos[i].title = loaded[p][i].title
                   /\ load(file).todos[i].completed = loaded[p][i].completed
                   /\ load(file).todos[i].createdAt = loaded[p][i].createdAt
                   /\ load(file).todos[i].updatedAt = loaded[p][i].updatedAt

(***************************************************************************)
(* C25 (SpecRepo).  While a Create, Update or Delete is between taking the *)
(* lock and releasing it, which covers its load, its change of the list    *)
(* and its save, it is the only call past the lock: no List or FindByID is *)
(* about to read the file or has read it without having returned, and no   *)
(* other writer is there.  A List or FindByID that reads the file holds    *)
(* the read lock and reads what the file holds in that state.              *)
(***************************************************************************)
InWrite(p) == rop[p] \in WriteOps /\ pc[p] \in {"load", "save", "unlock"}

InRead(p) == rop[p] \in ReadOps /\ pc[p] \in {"load", "unlock"}

C25_WritersExcludeReaders ==
    /\ [](\A p \in Procs :
            InWrite(p) =>
                /\ writer = p
                /\ readers = {}
                /\ \A q \in Procs \ {p} : ~InRead(q) /\ ~InWrite(q))
    /\ [](\A q \in Procs : InRead(q) => (q \in readers /\ writer = NoProc))
    /\ [][\A q \in Procs :
            (rop[q] \in ReadOps /\ pc[q] = "load" /\ pc'[q] # "load") =>
                /\ ret'[q] \in {load(file).err, ErrNotFound}
                /\ rop[q] = "List" => loaded'[q] = load(file).todos
                /\ (rop[q] = "FindByID" /\ ret'[q] = ErrNil) =>
                       /\ HasID(load(file).todos, key[q])
                       /\ todo'[q] =
                            <<load(file).todos[IndexOf(load(file).todos,
                                                       key[q])]>>]_vars

\* a List waits for the lock while an Update has loaded and not yet saved
C25_Witness ==
    \E p, q \in Procs :
        /\ rop[p] = "Update" /\ pc[p] = "save"
        /\ loaded[p] # Store
        /\ rop[q] = "List" /\ pc[q] = "lock"

\* a List and a FindByID hold the read lock together
C25_TwoReaders ==
    \E p, q \in Procs :
        /\ rop[p] = "List" /\ rop[q] = "FindByID"
        /\ readers = {p, q}
        /\ pc[p] = "load" /\ pc[q] = "load"

(***************************************************************************)
(* The HTTP handlers (internal/infra/http/handler.go).  A request is the   *)
(* handler it is routed to, the path value "id" and the body; `status` is  *)
(* the code the handler passed to w.WriteHeader, 0 while it has written    *)
(* none.  An id string is a leading decimal integer, <<>> when it has      *)
(* none, followed by `rest` more bytes.  A body is an "object" (a JSON     *)
(* object with the members title and completed, followed by `rest` more    *)
(* bytes), a "text" that is no JSON at all, or an object whose title is a  *)
(* JSON number ("number").                                                 *)
(***************************************************************************)
StatusOK == 200
StatusCreated == 201
StatusBadRequest == 400
StatusNotFound == 404
StatusInternalServerError == 500

ErrScan == "expected integer"
ErrSyntax == "invalid character in request body"

IdStr(num, rest) == [num |-> num, rest |-> rest]

Body(kind, title, completed, rest) ==
    [kind |-> kind, title |-> title, completed |-> completed, rest |-> rest]

NoId == IdStr(<<>>, 0)
NoBody == Body("text", Str(0, 0, 0), FALSE, 0)

Request(op, id, body, status) ==
    [op |-> op, id |-> id, body |-> body, status |-> status]

\* fmt.Sscanf(idStr, "%d", &id): scans the leading integer and stops there;
\* what follows the integer is not looked at
Sscanf(idStr) ==
    IF idStr.num = <<>>
    THEN [id |-> 0, err |-> ErrScan]
    ELSE [id |-> idStr.num[1], err |-> ErrNil]

\* encoding/json decoding a string literal: bytes that are not valid UTF-8
\* become U+FFFD
DecodeString(s) == Str(s.ascii, 0, s.repl + s.bad)

\* json.NewDecoder(r.Body).Decode(&req): reads the first JSON value of the
\* body and leaves the rest unread
Decode(body) ==
    IF body.kind = "object"
    THEN [req |-> [title |-> DecodeString(body.title),
                   completed |-> body.completed],
          err |-> ErrNil]
    ELSE [req |-> NoReq, err |-> ErrSyntax]

IdHandlers == {"FindByIDTodo", "UpdateTodo", "DeleteTodo"}
BodyHandlers == {"CreateTodo", "UpdateTodo"}

\* the early returns of the handlers: the id check, then the body check, then
\* CreateTodo's check of the title
Rejects(op, id, body) ==
    IF op \in IdHandlers /\ Sscanf(id).err # ErrNil THEN TRUE
    ELSE IF op \in BodyHandlers /\ Decode(body).err # ErrNil THEN TRUE
    ELSE op = "CreateTodo" /\ StrLen(Decode(body).req.title) = 0

\* the status each handler writes for what its usecase returned
CreateTodoStatus(err) ==
    IF err # ErrNil THEN StatusInternalServerError ELSE StatusCreated

ListTodoStatus(err) ==
    IF err # ErrNil THEN StatusInternalServerError ELSE StatusOK

\* FindByIDTodoStatus without the todo == nil check
FindByIDTodoStatusNoNil(err, t) ==
    IF err # ErrNil
    THEN IF err = ErrNotFound THEN StatusNotFound
         ELSE StatusInternalServerError
    ELSE StatusOK

FindByIDTodoStatus(err, t) ==
    IF err # ErrNil
    THEN IF err = ErrNotFound THEN StatusNotFound
         ELSE StatusInternalServerError
    ELSE IF t = <<>> THEN StatusNotFound
    ELSE StatusOK

\* UpdateTodoStatus that knows only the empty-title error
UpdateTodoStatusEmptyOnly(err) ==
    IF err # ErrNil
    THEN IF err = ErrNotFound THEN StatusNotFound
         ELSE IF err = ErrEmptyTitle THEN StatusBadRequest
         ELSE StatusInternalServerError
    ELSE StatusOK

UpdateTodoStatus(err) ==
    IF err # ErrNil
    THEN IF err = ErrNotFound THEN StatusNotFound
         ELSE IF err = ErrEmptyTitle \/ err = ErrTitleTooLong
              THEN StatusBadRequest
         ELSE StatusInternalServerError
    ELSE StatusOK

DeleteTodoStatus(err) ==
    IF err # ErrNil
    THEN IF err = ErrNotFound THEN StatusNotFound
         ELSE StatusInternalServerError
    ELSE StatusOK

StatusOf(op, err, t) ==
    IF op = "CreateTodo" THEN CreateTodoStatus(err)
    ELSE IF op = "ListTodo" THEN ListTodoStatus(err)
    ELSE IF op = "FindByIDTodo" THEN FindByIDTodoStatus(err, t)
    ELSE IF op = "UpdateTodo" THEN UpdateTodoStatus(err)
    ELSE DeleteTodoStatus(err)

\* the handler of the goroutine's last request has returned
Responded(p) == http[p].op = "none" \/ http[p].status # 0

\* w.WriteHeader(http.StatusBadRequest); return, before any usecase is called
BadRequest(p, op, id, body) ==
    /\ CanStart(p)
    /\ Responded(p)
    /\ calls' = calls + 1
    /\ http' = [http EXCEPT ![p] = Request(op, id, body, StatusBadRequest)]
    /\ UNCHANGED <<file, writer, readers, clock, pc, uop, rop, todo, key, req,
                   loaded, ret, assigned, born, store0>>

\* the handler has called its usecase
Serving(p, op, id, body) ==
    /\ Responded(p)
    /\ http' = [http EXCEPT ![p] = Request(op, id, body, 0)]

CreateTodo(p, body) ==
    IF Rejects("CreateTodo", NoId, body)
    THEN BadRequest(p, "CreateTodo", NoId, body)
    ELSE /\ Serving(p, "CreateTodo", NoId, body)
         /\ CreateTodoUsecaseCall(p, Decode(body).req.title)

ListTodo(p) ==
    /\ Serving(p, "ListTodo", NoId, NoBody)
    /\ Enter(p, "List", "List", <<>>, 0, NoReq)
    /\ UNCHANGED clock

FindByIDTodo(p, id) ==
    IF Rejects("FindByIDTodo", id, NoBody)
    THEN BadRequest(p, "FindByIDTodo", id, NoBody)
    ELSE /\ Serving(p, "FindByIDTodo", id, NoBody)
         /\ Enter(p, "FindByID", "FindByID", <<>>, Sscanf(id).id, NoReq)
         /\ UNCHANGED clock

UpdateTodo(p, id, body) ==
    IF Rejects("UpdateTodo", id, body)
    THEN BadRequest(p, "UpdateTodo", id, body)
    ELSE /\ Serving(p, "UpdateTodo", id, body)
         /\ Enter(p, "Update", "FindByID", <<>>, Sscanf(id).id,
                  Decode(body).req)
         /\ UNCHANGED clock

DeleteTodo(p, id) ==
    IF Rejects("DeleteTodo", id, NoBody)
    THEN BadRequest(p, "DeleteTodo", id, NoBody)
    ELSE /\ Serving(p, "DeleteTodo", id, NoBody)
         /\ Enter(p, "Delete", "Delete", <<>>, Sscanf(id).id, NoReq)
         /\ UNCHANGED clock

\* the usecase has returned: the handler writes the status
WriteHeader(p) ==
    /\ pc[p] = "done"
    /\ ~Responded(p)
    /\ http' = [http EXCEPT
                  ![p].status = StatusOf(http[p].op, ret[p], todo[p])]
    /\ UNCHANGED <<file, writer, readers, clock, calls, pc, uop, rop, todo,
                   key, req, loaded, ret, assigned, born, store0>>

\* "5", "5abc", "abc"
IdStrInputs == {IdStr(<<5>>, 0), IdStr(<<5>>, 3), IdStr(<<>>, 3)}

\* {"title": "", ...}, {"title": "abc", ...}, a title of 256 bytes,
\* {"title": "abc", ...} followed by "]", and "invalid json"
BodyInputs ==
    {Body("object", Str(0, 0, 0), TRUE, 0),
     Body("object", Str(3, 0, 0), TRUE, 0),
     Body("object", Str(256, 0, 0), TRUE, 0),
     Body("object", Str(3, 0, 0), TRUE, 1),
     Body("text", Str(0, 0, 0), FALSE, 12)}

\* PUT /todo/5 with every body, and every id with a good and with a bad body
UpdateTodoInputs ==
    {<<IdStr(<<5>>, 0), b>> : b \in BodyInputs}
        \cup {<<id, b>> : id \in IdStrInputs,
                          b \in {Body("object", Str(3, 0, 0), TRUE, 0),
                                 Body("text", Str(0, 0, 0), FALSE, 12)}}

\* the service starts with a store of two records or with a file that is
\* not JSON
InitHandler == Init /\ file.kind \in {"json", "bad"}

(***************************************************************************)
(* SpecHandler: requests served by the five handlers wired to the usecases *)
(* and the file repository, as cmd/main.go wires them.                     *)
(***************************************************************************)
NextHandler ==
    \E p \in Procs :
        \/ \E b \in BodyInputs : CreateTodo(p, b)
        \/ ListTodo(p)
        \/ \E id \in IdStrInputs : FindByIDTodo(p, id)
        \/ \E u \in UpdateTodoInputs : UpdateTodo(p, u[1], u[2])
        \/ \E id \in IdStrInputs : DeleteTodo(p, id)
        \/ UpdateTodoUsecaseMutate(p)
        \/ RepoStep(p)
        \/ WriteHeader(p)

SpecHandler == InitHandler /\ [][NextHandler]_vars

(***************************************************************************)
(* SpecMock: the handlers wired to usecase doubles, as in handler_test.go. *)
(* A double returns at once what it was built with: a todo or nil, and an  *)
(* error or nil.                                                           *)
(***************************************************************************)
ErrRepository == "repository error"

MockOutcomes ==
    {[todo |-> <<Todo(1, Str(8, 0, 0), FALSE, 2, 2)>>, err |-> ErrNil],
     [todo |-> <<>>, err |-> ErrNil],
     [todo |-> <<>>, err |-> ErrNotFound],
     [todo |-> <<>>, err |-> ErrRepository],
     [todo |-> <<>>, err |-> ErrTitleTooLong]}

\* GET /todo/list, GET /todo/5, GET /todo/abc, PUT /todo/5, DELETE /todo/5
MockRequests ==
    {Request("ListTodo", NoId, NoBody, 0),
     Request("FindByIDTodo", IdStr(<<5>>, 0), NoBody, 0),
     Request("FindByIDTodo", IdStr(<<>>, 3), NoBody, 0),
     Request("UpdateTodo", IdStr(<<5>>, 0),
             Body("object", Str(3, 0, 0), TRUE, 0), 0),
     Request("DeleteTodo", IdStr(<<5>>, 0), NoBody, 0)}

\* a handler up to the return of its usecase double
ServeMock(p, r, out) ==
    IF Rejects(r.op, r.id, r.body)
    THEN BadRequest(p, r.op, r.id, r.body)
    ELSE /\ CanStart(p)
         /\ Serving(p, r.op, r.id, r.body)
         /\ calls' = calls + 1
         /\ pc' = [pc EXCEPT ![p] = "done"]
         /\ uop' = [uop EXCEPT ![p] = "mock"]
         /\ rop' = [rop EXCEPT ![p] = "none"]
         /\ todo' = [todo EXCEPT ![p] = out.todo]
         /\ ret' = [ret EXCEPT ![p] = out.err]
         /\ key' = [key EXCEPT ![p] = 0]
         /\ req' = [req EXCEPT ![p] = NoReq]
         /\ loaded' = [loaded EXCEPT ![p] = <<>>]
         /\ UNCHANGED <<file, writer, readers, clock, assigned, born, store0>>

NextMock ==
    \E p \in Procs :
        \/ \E r \in MockRequests, out \in MockOutcomes : ServeMock(p, r, out)
        \/ WriteHeader(p)

SpecMock == Init /\ [][NextMock]_vars

(***************************************************************************)
(* C26 (SpecMock).  Once a handler has written a status for what its       *)
(* usecase returned: FindByIDTodo, UpdateTodo and DeleteTodo wrote 404 for *)
(* the not-found error, 500 for any other error the handler does not       *)
(* classify (UpdateTodo classifies the two validation errors), and 200 for *)
(* no error, except that FindByIDTodo wrote 404 for a nil todo with no     *)
(* error; ListTodo wrote 200 for no error and 500 for any error.           *)
(***************************************************************************)
\* the handler of p has written the status for the outcome of its usecase
Answered(p, op) ==
    /\ http[p].op = op
    /\ http[p].status # 0
    /\ ~Rejects(op, http[p].id, http[p].body)

C26_StatusOfOutcome ==
    \A p \in Procs :
        /\ \A op \in IdHandlers :
              Answered(p, op) =>
                  /\ ret[p] = ErrNotFound => http[p].status = 404
                  /\ (/\ ret[p] \notin {ErrNil, ErrNotFound}
                      /\ ~(op = "UpdateTodo" /\ ret[p] \in ValidationErrors))
                        => http[p].status = 500
                  /\ (ret[p] = ErrNil /\ op = "FindByIDTodo" /\ todo[p] = <<>>)
                        => http[p].status = 404
                  /\ (ret[p] = ErrNil /\ ~(op = "FindByIDTodo" /\ todo[p] = <<>>))
                        => http[p].status = 200
        /\ Answered(p, "ListTodo") =>
              /\ ret[p] = ErrNil => http[p].status = 200
              /\ ret[p] # ErrNil => http[p].status = 500

\* FindByIDTodo has answered 404 for a nil todo with no error
C26_Witness ==
    \E p \in Procs :
        /\ Answered(p, "FindByIDTodo")
        /\ ret[p] = ErrNil /\ todo[p] = <<>>
        /\ http[p].status = 404
        /\ calls = MaxCalls

(***************************************************************************)
(* C27 (SpecHandler).  As claimed: once CreateTodo has written a status    *)
(* for a body it could decode, the status is 400 when the title is empty   *)
(* or longer than 255 bytes, 201 when the usecase returned no error, and   *)
(* 500 only when the usecase returned an error of the file repository.     *)
(***************************************************************************)
C27_CreateTodoStatus ==
    \A p \in Procs :
        (/\ http[p].op = "CreateTodo"
         /\ http[p].status # 0
         /\ Decode(http[p].body).err = ErrNil) =>
            LET title == Decode(http[p].body).req.title
            IN  /\ StrLen(title) = 0 => http[p].status = 400
                /\ StrLen(title) > MaxTitleLen => http[p].status = 400
                /\ http[p].status = 201 => ret[p] = ErrNil
                /\ (/\ StrLen(title) > 0
                    /\ StrLen(title) <= MaxTitleLen
                    /\ ret[p] = ErrNil) => http[p].status = 201
                /\ http[p].status = 500 => ret[p] \in StorageErrors
                /\ http[p].status \in {400, 201, 500}

(***************************************************************************)
(* SpecUpdateTodo: requests to the UpdateTodo and DeleteTodo handlers,     *)
(* wired to the usecases and the file repository.                          *)
(***************************************************************************)
\* PUT /todo/5 with an empty title, a title of 3 bytes and one of 256 bytes
UpdateTodoBodies ==
    {Body("object", Str(0, 0, 0), TRUE, 0),
     Body("object", Str(3, 0, 0), TRUE, 0),
     Body("object", Str(256, 0, 0), FALSE, 0)}

NextUpdateTodo ==
    \E p \in Procs :
        \/ \E b \in UpdateTodoBodies : UpdateTodo(p, IdStr(<<5>>, 0), b)
        \/ DeleteTodo(p, IdStr(<<5>>, 0))
        \/ UpdateTodoUsecaseMutate(p)
        \/ RLock(p)
        \/ FindByIDLoad(p)
        \/ RUnlock(p)
        \/ Lock(p)
        \/ UpdateLoad(p)
        \/ DeleteLoad(p)
        \/ Save(p)
        \/ Unlock(p)
        \/ WriteHeader(p)

SpecUpdateTodo == Init /\ [][NextUpdateTodo]_vars

(***************************************************************************)
(* C28 (SpecUpdateTodo).  When the Update usecase returned the empty-title *)
(* or the too-long error, UpdateTodo writes 400; a request with such a     *)
(* title is never answered 200, and no step of its handler, from the       *)
(* decoding of the request to the writing of the status, changes the file. *)
(***************************************************************************)
\* the title of the request in r is empty or longer than 255 bytes
InvalidTitle(r) ==
    /\ r.op = "UpdateTodo"
    /\ ~Rejects(r.op, r.id, r.body)
    /\ StrLen(Decode(r.body).req.title) \notin 1..MaxTitleLen

C28_UpdateTodoValidation ==
    /\ [][\A p \in Procs :
            /\ (/\ http[p].op = "UpdateTodo"
                /\ http[p].status = 0
                /\ http'[p].status # 0
                /\ ret[p] \in ValidationErrors)
                  => /\ http'[p].status = 400
                     /\ rop[p] = "FindByID"
                     /\ file' = file
            /\ (/\ InvalidTitle(http'[p])
                /\ (pc'[p] # pc[p] \/ http'[p] # http[p]))
                  => file' = file]_vars
    /\ [](\A p \in Procs :
            (InvalidTitle(http[p]) /\ http[p].status # 0) =>
                /\ http[p].status # 200
                /\ http[p].status = 400 <=> ret[p] \in ValidationErrors)

\* the only request, PUT /todo/5 with a title of 256 bytes, was answered 400
\* and the store is as it was
C28_Witness ==
    \E p \in Procs :
        /\ InvalidTitle(http[p])
        /\ http[p].status = 400
        /\ ret[p] = ErrTitleTooLong
        /\ calls = 1
        /\ Len(store0) = 2
        /\ Store = store0

(***************************************************************************)
(* C29 (SpecHandler).  As claimed: a request to FindByIDTodo, UpdateTodo   *)
(* or DeleteTodo whose id is not a number, and a request to CreateTodo or  *)
(* UpdateTodo whose body is not valid JSON, is answered 400 in the step    *)
(* that receives it, and that step calls no usecase and leaves the store   *)
(* as it is.                                                               *)
(***************************************************************************)
NonNumeric(id) == id.num = <<>> \/ id.rest > 0

NotJSON(body) == body.kind # "object" \/ body.rest > 0

Undecodable(r) ==
    \/ r.op \in IdHandlers /\ NonNumeric(r.id)
    \/ r.op \in BodyHandlers /\ NotJSON(r.body)

C29_UndecodableRejected ==
    /\ [][\A p \in Procs :
            (/\ calls' = calls + 1
             /\ http'[p] # http[p]
             /\ Undecodable(http'[p]))
                => /\ http'[p].status = 400
                   /\ UNCHANGED <<file, pc, uop, rop, todo, key, req, loaded,
                                  ret, writer, readers>>]_vars
    /\ [](\A p \in Procs :
            (http[p].op # "none" /\ Undecodable(http[p]))
                => http[p].status = 400)

(***************************************************************************)
(* SpecFair: the repository calls of a finite set of goroutines on a file  *)
(* system that can fail, under fair scheduling: a goroutine that can take  *)
(* a step of its call, and stays able to, takes it.  A goroutine waiting   *)
(* for r.mu can take its step whenever the mutex is free for it.           *)
(***************************************************************************)
CallStep(p) == RepoStep(p) \/ LoadFail(p) \/ SaveFail(p)

NextFair ==
    \E p \in Procs :
        \/ Create(p, Todo(0, Str(3, 0, 0), FALSE, 2, 2))
        \/ List(p)
        \/ FindByID(p, 5)
        \/ Update(p, Todo(5, Str(3, 0, 0), TRUE, 1, 2))
        \/ Delete(p, 5)
        \/ RepoStep(p)
        \/ LoadFail(p)
        \/ SaveFail(p)

\* the calls start on a store of two records; failed writes leave the other
\* kinds of file
InitFair == Init /\ file.kind = "json"

SpecFair ==
    /\ InitFair
    /\ [][NextFair]_vars
    /\ \A p \in Procs : WF_vars(CallStep(p))

(***************************************************************************)
(* C30 (SpecFair).  From some point on every call that was started has     *)
(* returned, so no call waits or runs forever; r.mu is held only by calls  *)
(* between their lock and their return, the step that returns releases it  *)
(* whatever the call's error, and once all calls have returned nobody      *)
(* holds it.                                                               *)
(***************************************************************************)
InCall(p) == pc[p] \notin {"idle", "done"}

C30_CallsComplete ==
    /\ <>[]AllReturned
    /\ [](\A p \in Procs :
            /\ writer = p => (InCall(p) /\ pc[p] # "lock" /\ rop[p] \in WriteOps)
            /\ p \in readers =>
                  (InCall(p) /\ pc[p] # "lock" /\ rop[p] \in ReadOps))
    /\ [](AllReturned => (writer = NoProc /\ readers = {}))
    /\ [][\A p \in Procs :
            (InCall(p) /\ pc'[p] = "done") =>
                (writer' # p /\ p \notin readers')]_vars

\* all calls have returned: the last of one goroutine with the error of a
\* failed write, the last of the other with the not-found error
C30_Witness ==
    /\ calls = MaxCalls
    /\ AllReturned
    /\ writer = NoProc /\ readers = {}
    /\ \E p, q \in Procs :
        /\ ret[p] = ErrWrite
        /\ ret[q] = ErrNotFound
        /\ rop[q] \in WriteOps

(***************************************************************************)
(* C31 (SpecIO).  No step of a List or FindByID call, from the call to the *)
(* return, changes the backing file, whatever the call returns; a file     *)
(* that is missing stays missing.                                          *)
(***************************************************************************)
\* the step is one of a List or FindByID call of p: its start or a step
\* inside the repository
ReadStep(p) ==
    \/ CanStart(p) /\ calls' = calls + 1 /\ rop'[p] \in ReadOps
    \/ rop[p] \in ReadOps /\ InCall(p) /\ pc'[p] # pc[p]

C31_ReadsNeverWrite ==
    [][\A p \in Procs :
          ReadStep(p) =>
              /\ file' = file
              /\ assigned' = assigned
              /\ (file.kind = "absent" => file'.kind = "absent")]_vars

\* on a missing file a List has returned the empty list and a FindByID
\* not-found, and the file is still missing
C31_Witness ==
    \E p, q \in Procs :
        /\ rop[p] = "List" /\ pc[p] = "done" /\ ret[p] = ErrNil
        /\ rop[q] = "FindByID" /\ pc[q] = "done" /\ ret[q] = ErrNotFound
        /\ file.kind = "absent"

(***************************************************************************)
(* C32 (SpecCreateUsecase).  As claimed: once the save of a Create usecase *)
(* call has succeeded, and before the lock is released, the record it      *)
(* stored, the last of the store, has completed = false, createdAt =       *)
(* updatedAt = the time the call read, the title the call was given and    *)
(* the id the repository assigned, and is equal to the todo the call       *)
(* returns.                                                                *)
(***************************************************************************)
C32_CreateStoresArgument ==
    \A p \in Procs :
        (/\ uop[p] = "Create"
         /\ rop[p] = "Create"
         /\ pc[p] = "unlock"
         /\ ret[p] = ErrNil) =>
            LET t == todo[p][1]
                s == Store[Len(Store)]
            IN  /\ Len(Store) >= 1
                /\ s.completed = FALSE
                /\ s.createdAt = t.createdAt
                /\ s.updatedAt = t.createdAt
                /\ s.title = t.title
                /\ s.id = t.id
                /\ t.id = assigned[Len(assigned)]
                /\ s = t

(***************************************************************************)
(* SpecUsecaseIO: the List, FindByID, Update and Delete usecases over the  *)
(* repository on a file system whose reads and writes can fail.            *)
(***************************************************************************)
NextUsecaseIO ==
    \E p \in Procs :
        \/ ListTodoUsecaseExecute(p)
        \/ FindByIDTodoUsecaseExecute(p, 5)
        \/ UpdateTodoUsecaseExecute(p, 5, Str(3, 0, 0), TRUE)
        \/ DeleteTodoUsecaseExecute(p, 5)
        \/ UpdateTodoUsecaseMutate(p)
        \/ RLock(p)
        \/ ListLoad(p)
        \/ FindByIDLoad(p)
        \/ RUnlock(p)
        \/ Lock(p)
        \/ UpdateLoad(p)
        \/ DeleteLoad(p)
        \/ Save(p)
        \/ Unlock(p)
        \/ LoadFail(p)
        \/ SaveFail(p)

SpecUsecaseIO == Init /\ [][NextUsecaseIO]_vars

(***************************************************************************)
(* C33 (SpecUsecaseIO).  Once a repository method has set an error, no     *)
(* later step of the usecase call changes it or calls the repository       *)
(* again, and the call returns it, the Update usecase with a nil todo.  A  *)
(* usecase returns what its last repository method returned: the error or  *)
(* nil, the list of List, the todo of FindByID.                            *)
(***************************************************************************)
C33_ErrorsPropagate ==
    [][\A p \in Procs :
          /\ (InCall(p) /\ uop[p] # "none" /\ ret[p] # ErrNil) =>
                /\ ret'[p] = ret[p]
                /\ pc'[p] \in {pc[p], "unlock", "mutate", "done"}
                /\ pc[p] = "mutate" => pc'[p] \in {"mutate", "done"}
          /\ (InCall(p) /\ uop[p] # "none" /\ pc'[p] = "done") =>
                /\ ret[p] \in StorageErrors \cup {ErrNotFound, ErrNil}
                /\ ret'[p] = ret[p]
                /\ (uop[p] = "Update" /\ ret[p] # ErrNil) => todo'[p] = <<>>
                /\ (uop[p] = "Update" /\ ret[p] = ErrNil) =>
                      (rop[p] = "Update" /\ todo'[p] = todo[p])
                /\ uop[p] = "List" => loaded'[p] = loaded[p]
                /\ uop[p] = "FindByID" => todo'[p] = todo[p]]_vars

\* an Update usecase whose repository.Update failed to write has returned
\* that error and nil, a Delete usecase has returned not-found
C33_Witness ==
    \E p, q \in Procs :
        /\ uop[p] = "Update" /\ rop[p] = "Update" /\ pc[p] = "done"
        /\ ret[p] = ErrWrite /\ todo[p] = <<>>
        /\ uop[q] = "Delete" /\ pc[q] = "done" /\ ret[q] = ErrNotFound

(***************************************************************************)
(* C34 (SpecUpdateUsecase).  As claimed: no step lowers the updatedAt of a *)
(* record that is in the store before and after the step.                  *)
(***************************************************************************)
C34_UpdatedAtMonotone ==
    [][\A i \in 1..Len(Store) :
          \A j \in 1..Len(Store') :
              Store'[j].id = Store[i].id =>
                  Store'[j].updatedAt >= Store[i].updatedAt]_vars

(***************************************************************************)
(* C35 (SpecUpdateUsecase).  With Update and Delete usecase calls and no   *)
(* Create, no step adds an id to the store.  An Update usecase call that   *)
(* found its record with FindByID and reaches repository.Update after a    *)
(* Delete has removed the record gets not-found from the load step of      *)
(* repository.Update, which writes nothing, and returns not-found and nil; *)
(* the id is not in the store then.                                        *)
(***************************************************************************)
\* p runs repository.Update for an Update usecase call
InRepoUpdate(p) == uop[p] = "Update" /\ rop[p] = "Update"

C35_DeletedStaysDeleted ==
    /\ [][/\ StoreIDs' \subseteq StoreIDs
          /\ \A p \in Procs :
                /\ (/\ InRepoUpdate(p)
                    /\ pc[p] = "load" /\ pc'[p] # "load"
                    /\ Loadable
                    /\ ~HasID(Store, todo[p][1].id))
                      => /\ ret'[p] = ErrNotFound
                         /\ pc'[p] = "unlock"
                         /\ file' = file
                /\ (/\ InRepoUpdate(p)
                    /\ pc[p] = "unlock" /\ pc'[p] = "done"
                    /\ ret[p] = ErrNotFound)
                      => /\ ret'[p] = ErrNotFound
                         /\ todo'[p] = <<>>
                         /\ file' = file
                         /\ ~HasID(Store', todo[p][1].id)]_vars
    /\ [](\A p \in Procs :
            (InRepoUpdate(p) /\ pc[p] = "unlock" /\ ret[p] = ErrNotFound)
                => ~HasID(Store, todo[p][1].id))

\* an Update usecase call that had found record 5 has returned not-found
\* after a Delete usecase call removed it; the store holds record 4 only
C35_Witness ==
    \E p, q \in Procs :
        /\ InRepoUpdate(p) /\ pc[p] = "done"
        /\ ret[p] = ErrNotFound /\ todo[p] = <<>>
        /\ uop[q] = "Delete" /\ pc[q] = "done" /\ ret[q] = ErrNil
        /\ Len(store0) = 2
        /\ IDs(Store) = <<4>>

(***************************************************************************)
(* C36 (SpecRepo).  Every repository call takes effect in one step, its    *)
(* linearization point, where it does to the store of that moment what the *)
(* call does when it runs alone: the save step of a Create, Update or      *)
(* Delete that writes, the load step of every other call.  The value the   *)
(* call returns is fixed there and the file changes in no other step, so   *)
(* the calls of every interleaving return, and leave in the store, what    *)
(* they do when run one after another in the order of these steps.         *)
(***************************************************************************)
\* the calls run alone on the store ts
SeqCreate(ts, t) ==
    LET new == [t EXCEPT !.id = Largest({ts[i].id : i \in 1..Len(ts)}) + 1]
    IN  [todos |-> Append(ts, EncodeTodo(new)), todo |-> <<new>>,
         err |-> ErrNil]

SeqFindByID(ts, id) ==
    IF \E i \in 1..Len(ts) : ts[i].id = id
    THEN [todos |-> ts,
          todo |-> <<ts[CHOOSE i \in 1..Len(ts) : ts[i].id = id]>>,
          err |-> ErrNil]
    ELSE [todos |-> ts, todo |-> <<>>, err |-> ErrNotFound]

SeqUpdate(ts, t) ==
    IF \E i \in 1..Len(ts) : ts[i].id = t.id
    THEN [todos |-> [i \in 1..Len(ts) |->
                        IF ts[i].id = t.id THEN EncodeTodo(t) ELSE ts[i]],
          err |-> ErrNil]
    ELSE [todos |-> ts, err |-> ErrNotFound]

SeqDelete(ts, id) ==
    IF \E i \in 1..Len(ts) : ts[i].id = id
    THEN [todos |-> SelectSeq(ts, LAMBDA x : x.id # id), err |-> ErrNil]
    ELSE [todos |-> ts, err |-> ErrNotFound]

\* the load step of p, when it is the step where p's call takes effect
LoadPoint(p) ==
    IF ~Loadable
    THEN /\ ret'[p] = load(file).err
         /\ pc'[p] = "unlock"
    ELSE /\ rop[p] = "List" =>
                (ret'[p] = ErrNil /\ loaded'[p] = Store)
         /\ rop[p] = "FindByID" =>
                /\ ret'[p] = SeqFindByID(Store, key[p]).err
                /\ todo'[p] = SeqFindByID(Store, key[p]).todo
         /\ rop[p] = "Update" =>
                IF SeqUpdate(Store, todo[p][1]).err = ErrNil
                THEN pc'[p] = "save"
                ELSE ret'[p] = ErrNotFound /\ pc'[p] = "unlock"
         /\ rop[p] = "Delete" =>
                IF SeqDelete(Store, key[p]).err = ErrNil
                THEN pc'[p] = "save"
                ELSE ret'[p] = ErrNotFound /\ pc'[p] = "unlock"
         /\ rop[p] = "Create" => pc'[p] = "save"

\* the save step of p: the store becomes what p's call makes of the store
\* as it is now, not as it was when p loaded it
SavePoint(p) ==
    /\ Loadable
    /\ ret'[p] = ErrNil
    /\ pc'[p] = "unlock"
    /\ rop[p] = "Create" =>
          /\ todo[p] = SeqCreate(Store, todo[p][1]).todo
          /\ Store' = SeqCreate(Store, todo[p][1]).todos
    /\ rop[p] = "Update" =>
          /\ SeqUpdate(Store, todo[p][1]).err = ErrNil
          /\ Store' = SeqUpdate(Store, todo[p][1]).todos
    /\ rop[p] = "Delete" =>
          /\ SeqDelete(Store, key[p]).err = ErrNil
          /\ Store' = SeqDelete(Store, key[p]).todos

C36_Linearizable ==
    [][/\ \A p \in Procs :
            /\ (pc[p] = "load" /\ pc'[p] # "load") =>
                  (LoadPoint(p) /\ file' = file)
            /\ (pc[p] = "save" /\ pc'[p] # "save") => SavePoint(p)
            /\ (pc[p] = "unlock" /\ pc'[p] # "unlock") =>
                  /\ ret'[p] = ret[p]
                  /\ todo'[p] = todo[p]
                  /\ file' = file
       /\ (file' # file) =>
            \E p \in Procs : pc[p] = "save" /\ pc'[p] # "save"]_vars

\* a Create is about to save while another writer waits for the lock, after
\* a Delete and a Create have taken effect
C36_Witness ==
    \E p, q \in Procs :
        /\ p # q
        /\ rop[p] = "Create" /\ pc[p] = "save"
        /\ rop[q] \in WriteOps /\ pc[q] = "lock"
        /\ assigned # <<>>
        /\ ~HasID(Store, 4)

(***************************************************************************)
(* C37 (SpecIO).  The number of stored records grows by one in the step    *)
(* where a Create succeeds, shrinks by one in the step where a Delete      *)
(* succeeds, and is the same after every other step: those of Update,      *)
(* List and FindByID and those of every call that fails.  Between calls    *)
(* it is then the initial number plus the successful Creates minus the     *)
(* successful Deletes.                                                     *)
(***************************************************************************)
Count == Len(Store)

\* p's call succeeds in this step: its save reports nil
Succeeds(p, op) ==
    /\ rop[p] = op
    /\ pc[p] = "save" /\ pc'[p] # "save"
    /\ ret'[p] = ErrNil

C37_CountTracksCalls ==
    [][/\ (\E p \in Procs : Succeeds(p, "Create")) => Count' = Count + 1
       /\ (\E p \in Procs : Succeeds(p, "Delete")) => Count' = Count - 1
       /\ (\A p \in Procs : ~Succeeds(p, "Create") /\ ~Succeeds(p, "Delete"))
             => Count' = Count]_vars

(***************************************************************************)
(* SpecWiring: well-formed requests to the five endpoints, served by the   *)
(* handlers over the usecases over the file repository as cmd/main.go      *)
(* wires them, on a store of two records or on a file that is not JSON.    *)
(***************************************************************************)
\* PUT bodies with an empty, a good and an over-long title
WiringBodies ==
    {Body("object", Str(0, 0, 0), TRUE, 0),
     Body("object", Str(3, 0, 0), TRUE, 0),
     Body("object", Str(256, 0, 0), TRUE, 0)}

NextWiring ==
    \E p \in Procs :
        \/ CreateTodo(p, Body("object", Str(3, 0, 0), FALSE, 0))
        \/ ListTodo(p)
        \/ FindByIDTodo(p, IdStr(<<5>>, 0))
        \/ \E b \in WiringBodies : UpdateTodo(p, IdStr(<<5>>, 0), b)
        \/ DeleteTodo(p, IdStr(<<5>>, 0))
        \/ UpdateTodoUsecaseMutate(p)
        \/ RepoStep(p)
        \/ WriteHeader(p)

SpecWiring == InitHandler /\ [][NextWiring]_vars

(***************************************************************************)
(* C38 (SpecWiring).  The error a layer produces is the one the handler    *)
(* classifies.  A repository method that loads a store without the         *)
(* request's id sets not-found; the Update usecase that found the record   *)
(* and is given an empty or over-long title sets the validation error and  *)
(* never enters repository.Update; a load of an undecodable file sets the  *)
(* decoding error.  No later step of the request changes an error once     *)
(* set, and the handler answers 404 for not-found on GET, PUT and DELETE,  *)
(* 400 for a validation error on PUT, 500 for the decoding error on every  *)
(* endpoint.  While the file is undecodable every answer is 500.           *)
(***************************************************************************)
\* p serves a request whose status is not written yet
Pending(p) == http[p].op # "none" /\ http[p].status = 0

\* the id p's repository method looks for
Sought(p) == IF rop[p] = "Update" THEN todo[p][1].id ELSE key[p]

C38_LayersClassified ==
    /\ [][\A p \in Procs :
            Pending(p) =>
              \* the repository: id absent from a loadable store, unloadable store
              /\ (pc[p] = "load" /\ pc'[p] # "load") =>
                    /\ ~Loadable =>
                          (ret'[p] = ErrUnmarshal /\ pc'[p] = "unlock")
                    /\ (Loadable /\ rop[p] \in {"FindByID", "Update", "Delete"}
                          /\ ~HasID(Store, Sought(p))) =>
                          (ret'[p] = ErrNotFound /\ pc'[p] = "unlock")
                    /\ (Loadable /\ rop[p] = "FindByID" /\ HasID(Store, key[p])) =>
                          ret'[p] = ErrNil
              \* the usecase: the title of a found record is validated
              /\ (/\ pc[p] = "mutate" /\ pc'[p] # "mutate"
                  /\ ret[p] = ErrNil /\ InvalidTitle(http[p])) =>
                    /\ ret'[p] \in ValidationErrors
                    /\ ret'[p] = ErrEmptyTitle <=> StrLen(req[p].title) = 0
                    /\ pc'[p] = "done"
                    /\ file' = file
              \* an error, once set, reaches the handler as it is
              /\ ret[p] # ErrNil =>
                    /\ ret'[p] = ret[p]
                    /\ pc'[p] \in {"unlock", "mutate", "done"}
                    /\ pc'[p] # pc[p] => file' = file
              /\ (pc[p] \in {"unlock", "done"}) => ret'[p] = ret[p]
              \* the handler
              /\ http'[p].status # 0 =>
                    /\ (ret[p] = ErrNotFound /\ http[p].op \in IdHandlers) =>
                          http'[p].status = 404
                    /\ (ret[p] \in ValidationErrors /\ http[p].op = "UpdateTodo") =>
                          http'[p].status = 400
                    /\ ret[p] = ErrUnmarshal => http'[p].status = 500]_vars
    /\ [](\A p \in Procs :
            (~Loadable /\ http[p].op # "none" /\ http[p].status # 0) =>
                http[p].status = 500)

\* PUT /todo/5 with an invalid title answered 404: a DELETE had removed
\* record 5 from the store, which still holds record 4
C38_Witness ==
    \E p \in Procs :
        /\ InvalidTitle(http[p])
        /\ http[p].status = 404
        /\ Loadable
        /\ ~HasID(Store, 5) /\ HasID(Store, 4)

====
